---- MODULE Spec2Model ----
(***************************************************************************)
(* The client-side cache of qna-pdf-pal (store/libraryStore.ts): the       *)
(* zustand store holding libraries, currentLibrary, conversations and      *)
(* currentConversation, its asynchronous operations, and the backend they  *)
(* call.  Every `await fetch(...)` is two steps: the backend serves the    *)
(* request (Serve...), then the operation's continuation runs on the       *)
(* client (Resume...) up to its next await.  Operations in flight          *)
(* interleave at these points, as on the JavaScript event loop.            *)
(***************************************************************************)
EXTENDS Naturals, Sequences, FiniteSets, TLC

\* ---------------------------------------------------------------- bounds
MaxLibs == 2      \* libraries the backend ever creates
MaxConvs == 2     \* conversations the backend ever creates
MaxDocs == 2      \* longest document list a library holds locally
MaxMsgs == 1      \* messages the backend ever stores per conversation

Tasks == {1, 2}                \* slots of store operations in flight at once
DocIds == {"d1"}
Titles == {"A", "B"}
MsgIds == {"m1"}
Names == {"Physics", "Maths"}
\* strings are sequences of characters; the tags strings a caller passes
\* ("" and a missing argument are both <<>>)
NoTags == <<>>
TagStrings ==
    {NoTags, <<"a">>, <<"a", ",", "b">>, <<"a", ",", " ", "b">>,
     <<" ", "a", " ", ",", "b", " ">>, <<"a", " ", "b", ",", "c">>,
     <<"a", ",", ",", "b">>, <<"a", ",">>, <<",">>, <<" ">>}

VARIABLES
    libraries,            \* store: Library[]            (libraryStore.ts:83)
    currentLibrary,       \* store: Library | null, <<>> is null
    conversations,        \* store: Conversation[]
    currentConversation,  \* store: Conversation | null, <<>> is null
    srvLibraries,         \* backend: libraries, each with its documents
    srvConversations,     \* backend: conversations
    srvCreated,           \* backend: how many library / conversation ids it assigned
    storage,              \* localStorage entry "library-store", <<>> when absent
    upload,               \* PDFUploader: its state and its handleUpload run
    tasks,                \* the operations in flight, one record per slot
    ev                    \* the step just taken (history)

store == <<libraries, currentLibrary, conversations, currentConversation>>
backend == <<srvLibraries, srvConversations, srvCreated>>
vars == <<libraries, currentLibrary, conversations, currentConversation,
          srvLibraries, srvConversations, srvCreated, storage, upload, tasks, ev>>

\* ---------------------------------------------------------------- helpers
Range(s) == {s[i] : i \in DOMAIN s}
Ids(s) == {s[i].id : i \in DOMAIN s}
IdSeq(s) == [i \in DOMAIN s |-> s[i].id]

RECURSIVE Filter(_, _)
\* Array.prototype.filter with the predicate "element is in keep"
Filter(s, keep) ==
    IF s = <<>> THEN <<>>
    ELSE IF Head(s) \in keep THEN <<Head(s)>> \o Filter(Tail(s), keep)
    ELSE Filter(Tail(s), keep)

\* Array.prototype.find: the first element in `hits`, as <<x>>, or <<>> (undefined)
RECURSIVE FindFirst(_, _)
FindFirst(s, hits) ==
    IF s = <<>> THEN <<>>
    ELSE IF Head(s) \in hits THEN <<Head(s)>>
    ELSE FindFirst(Tail(s), hits)

LibId(n) == IF n = 1 THEN "L1" ELSE IF n = 2 THEN "L2" ELSE IF n = 3 THEN "L3" ELSE "L4"
ConvId(n) == IF n = 1 THEN "c1" ELSE IF n = 2 THEN "c2" ELSE IF n = 3 THEN "c3" ELSE "c4"

\* ------------------------------------- PDFUploader: component state (22-34)
\* the useState values after mount; run is the position of the handleUpload
\* call in progress (files its batch, libraryId the id of the library current
\* when it was called, i the index of the file being uploaded,
\* srv/ok the answer of the upload request); cancelled is a history field:
\* cancelUpload ran and no upload has been started since
NoRun == [pc |-> "idle", files |-> <<>>, libraryId |-> "", i |-> 0, srv |-> FALSE, ok |-> TRUE]

NoUpload ==
    [isUploading |-> FALSE, uploadProgress |-> 0, uploadStatus |-> "idle",
     uploadedFiles |-> <<>>, errorMessage |-> "", currentFile |-> "",
     currentFileSize |-> 0, totalFiles |-> 0, run |-> NoRun, cancelled |-> FALSE]

\* ---------------------------------------------------------------- tasks
IdleTask ==
    [op |-> "idle", pc |-> "idle", srv |-> FALSE, ok |-> TRUE, id |-> "", title |-> "",
     msg |-> "", libs |-> <<>>, docs |-> <<>>, pend |-> {}, snap |-> <<>>, i |-> 0,
     acc |-> <<>>, resp |-> <<>>, log |-> <<>>, phase |-> 0, del |-> TRUE,
     made |-> "", name |-> "", tags |-> <<>>, stored |-> <<>>]

NoEv ==
    [op |-> "", step |-> {}, call |-> "", id |-> "", title |-> "", del |-> TRUE,
     msg |-> "", made |-> "", name |-> "", tags |-> <<>>, arg |-> <<>>, resp |-> [libs |-> <<>>, docs |-> <<>>], log |-> <<>>, ret |-> <<>>,
     was |-> [libraries |-> <<>>, currentLibrary |-> <<>>]]

\* a new operation takes the lowest free slot (which slot is immaterial)
Idle(t) ==
    /\ tasks[t].op = "idle"
    /\ \A u \in Tasks : tasks[u].op = "idle" => t <= u
Awaiting(t, call) == tasks[t].pc = call /\ ~tasks[t].srv
Served(t, call) == tasks[t].pc = call /\ tasks[t].srv

\* the slots once the operation in slot t has ended: the busy slots stay the
\* lowest ones
Release(t) ==
    [u \in Tasks |-> IF u < t THEN tasks[u]
                     ELSE IF u + 1 \in Tasks THEN tasks[u + 1] ELSE IdleTask]

\* a request is put on the wire: the operation suspends at `await fetch(...)`
Issue(tk, call) == [tk EXCEPT !.pc = call, !.srv = FALSE, !.ok = TRUE]

\* ------------------------------------- persist options (300-319)
\* the version the snapshot is written and looked up under: the options name
\* no version, which leaves the middleware's default
StoreVersion == 0

\* mutant: the whole state is persisted
Partialize_Everything(state) == state

\* partialize: what of the state goes into the snapshot
Partialize(state) ==
    [libraries |-> state.libraries, conversations |-> state.conversations]

\* the entry the middleware writes for a state
Written(libs, cur, convs, curConv) ==
    <<[state |-> Partialize([libraries |-> libs, currentLibrary |-> cur,
                             conversations |-> convs, currentConversation |-> curConv]),
       version |-> StoreVersion]>>

\* every set() of the store is followed at once by the write of the snapshot
\* of the new state
SetItem ==
    storage' = Written(libraries', currentLibrary', conversations', currentConversation')

Init ==
    /\ libraries = <<>>
    /\ currentLibrary = <<>>
    /\ conversations = <<>>
    /\ currentConversation = <<>>
    /\ srvLibraries = <<>>
    /\ srvConversations = <<>>
    /\ srvCreated = [lib |-> 0, conv |-> 0]
    /\ tasks = [t \in Tasks |-> IdleTask]
    /\ ev = NoEv
    /\ upload = NoUpload
    /\ storage = Written(libraries, currentLibrary, conversations, currentConversation)

\* ------------------------------------------------- the store's pure rules
\* mutant: libraryId is not filled in from the server's library_id
NormalizeConversation_NoLibraryId(conv) ==
    [id |-> conv.id, library_id |-> conv.library_id, libraryId |-> "",
     title |-> conv.title, messages |-> conv.messages]

\* fetchAllConversations' mapping of one server conversation: the server's
\* fields are kept (...conv) and libraryId is added from library_id
NormalizeConversation(conv) ==
    [id |-> conv.id, library_id |-> conv.library_id, libraryId |-> conv.library_id,
     title |-> conv.title, messages |-> conv.messages]

NormalizeAll(convs) == [k \in DOMAIN convs |-> NormalizeConversation(convs[k])]

RECURSIVE SplitComma(_)
\* String.prototype.split(","): the pieces between the commas, empty ones kept
SplitComma(s) ==
    IF \A i \in DOMAIN s : s[i] # ","
    THEN <<s>>
    ELSE LET i == CHOOSE j \in DOMAIN s :
                      s[j] = "," /\ \A h \in 1..(j - 1) : s[h] # ","
         IN <<SubSeq(s, 1, i - 1)>> \o SplitComma(SubSeq(s, i + 1, Len(s)))

RECURSIVE Trim(_)
\* String.prototype.trim
Trim(s) ==
    IF s = <<>> THEN s
    ELSE IF Head(s) = " " THEN Trim(Tail(s))
    ELSE IF s[Len(s)] = " " THEN Trim(SubSeq(s, 1, Len(s) - 1))
    ELSE s

\* mutant: the pieces are not trimmed
ParseTags_NoTrim(tags) ==
    IF tags # <<>> THEN SplitComma(tags) ELSE <<>>

\* `lib.tags ? lib.tags.split(",").map((tag) => tag.trim()) : []`
ParseTags(tags) ==
    IF tags # <<>>
    THEN [k \in DOMAIN SplitComma(tags) |-> Trim(SplitComma(tags)[k])]
    ELSE <<>>

\* fetchLibraries' Promise.all: library k of the list response with its tags
\* parsed and the documents of its own document response
BuildLibraries(libs, docs) ==
    [k \in DOMAIN libs |->
        [id |-> libs[k].id, name |-> libs[k].name, tags |-> ParseTags(libs[k].tags),
         documents |-> docs[k]]]

\* mutant: the selection is always reset to the first library
RepairSelection_AlwaysFirst(cur, libs) ==
    IF Len(libs) > 0 THEN <<libs[1]>> ELSE <<>>

\* mutant: the membership test is forgotten, a selection is never replaced
RepairSelection_KeepStale(cur, libs) ==
    IF cur = <<>>
    THEN (IF Len(libs) > 0 THEN <<libs[1]>> ELSE <<>>)
    ELSE cur

\* fetchLibraries' set(): the selection is kept when its id is in the new
\* list, otherwise it is the first library of the list, or null
RepairSelection(cur, libs) ==
    IF cur = <<>> \/ ~(\E k \in DOMAIN libs : libs[k].id = cur[1].id)
    THEN (IF Len(libs) > 0 THEN <<libs[1]>> ELSE <<>>)
    ELSE cur

\* mutant: the document is put in front
AddDocumentTo_Prepend(libs, libraryId, document) ==
    [k \in DOMAIN libs |->
        IF libs[k].id = libraryId
        THEN [libs[k] EXCEPT !.documents = <<document>> \o @]
        ELSE libs[k]]

\* addDocument's map over libraries
AddDocumentTo(libs, libraryId, document) ==
    [k \in DOMAIN libs |->
        IF libs[k].id = libraryId
        THEN [libs[k] EXCEPT !.documents = Append(@, document)]
        ELSE libs[k]]

\* removeDocument's map and filter
RemoveDocumentFrom(libs, libraryId, documentId) ==
    [k \in DOMAIN libs |->
        IF libs[k].id = libraryId
        THEN [libs[k] EXCEPT !.documents = Filter(@, Range(@) \ {documentId})]
        ELSE libs[k]]

\* mutant: the library is taken from the conversation without looking it up
LibraryOf_Unchecked(cur, libs, c) ==
    IF c = <<>> THEN cur
    ELSE <<[id |-> c[1].libraryId, name |-> "", tags |-> <<>>, documents |-> <<>>]>>

\* setCurrentConversation: the library re-selected for the conversation c
LibraryOf(cur, libs, c) ==
    IF c = <<>> THEN cur
    ELSE LET library == FindFirst(libs, {l \in Range(libs) : l.id = c[1].libraryId})
         IN IF library # <<>> THEN library ELSE cur

\* deleteConversation's optimistic set()
DropConversation(convs, conversationId) ==
    Filter(convs, {c \in Range(convs) : c.id # conversationId})

\* mutant: the current conversation is cleared whichever conversation goes
DropCurrent_Always(cur, conversationId) == <<>>

DropCurrent(cur, conversationId) ==
    IF cur # <<>> /\ cur[1].id = conversationId THEN <<>> ELSE cur

\* mutant: the fetched conversation is appended instead of patched in
PatchConversation_Append(convs, conversationId, conv) ==
    Append(convs, conv)

\* fetchConversation's map: the entry with the id becomes { ...c, ...conv }
PatchConversation(convs, conversationId, conv) ==
    [k \in DOMAIN convs |->
        IF convs[k].id = conversationId
        THEN [f \in DOMAIN convs[k] \cup DOMAIN conv |->
                 IF f \in DOMAIN conv THEN conv[f] ELSE convs[k][f]]
        ELSE convs[k]]

\* mutant: the last match is taken
FindCreated_Last(convs, libraryId, title) ==
    LET hits == {k \in DOMAIN convs :
                    convs[k].libraryId = libraryId /\ convs[k].title = title}
    IN IF hits = {} THEN <<>>
       ELSE <<convs[CHOOSE k \in hits : \A j \in hits : j <= k]>>

\* createConversation's lookup after the refresh
FindCreated(convs, libraryId, title) ==
    FindFirst(convs, {c \in Range(convs) : c.libraryId = libraryId /\ c.title = title})

\* ---------------------------------------------------------------- events
Ev(tk, steps) ==
    [NoEv EXCEPT !.op = tk.op, !.step = steps, !.id = tk.id, !.title = tk.title,
                 !.del = tk.del, !.msg = tk.msg, !.made = tk.made,
                 !.name = tk.name, !.tags = tk.tags]

Fail(t, tk) ==
    /\ tasks' = Release(t)
    /\ ev' = [Ev(tk, {"failed"}) EXCEPT !.call = tk.pc]

\* ------------------------------------------- fetchAllConversations (259-280)
\* `const { libraries } = get()` and the first request of the loop
FetchAllStart(tk, libsNow) ==
    [tk EXCEPT !.pc = "listConversations", !.srv = FALSE, !.ok = TRUE,
               !.snap = IdSeq(libsNow), !.i = 1, !.acc = <<>>, !.log = <<>>,
               !.libs = <<>>, !.docs = <<>>, !.pend = {}, !.resp = <<>>]

\* what follows set({ conversations: allConvs }) in the operation that called
\* fetchAllConversations; libsNow is the store's library list at that point
AfterFetchAll(t, tk, allConvs, libsNow, e) ==
    /\ IF tk.op = "initialize" /\ tk.phase = 1
       THEN IF libsNow = <<>>
            THEN /\ conversations' = <<>>
                 /\ tasks' = Release(t)
                 /\ ev' = [e EXCEPT !.step = @ \cup {"done"}, !.log = <<>>]
            ELSE /\ conversations' = allConvs
                 /\ tasks' = [tasks EXCEPT ![t] = FetchAllStart([tk EXCEPT !.phase = 2], libsNow)]
                 /\ ev' = e
       ELSE /\ conversations' = allConvs
            /\ tasks' = Release(t)
            /\ ev' = [e EXCEPT !.step = @ \cup {"done"},
                               !.ret = IF tk.op = "createConversation"
                                       THEN FindCreated(allConvs, tk.id, tk.title)
                                       ELSE <<>>]
    /\ SetItem
    /\ UNCHANGED upload

\* a call of fetchAllConversations from a continuation: with no library the
\* loop body never runs and the empty list is set at once; wrote tells whether
\* the continuation has called set() itself before
CallFetchAll(t, tk, libsNow, e, wrote) ==
    IF libsNow = <<>>
    THEN AfterFetchAll(t, tk, <<>>, libsNow, [e EXCEPT !.step = @ \cup {"conversationsSet"}])
    ELSE /\ conversations' = conversations
         /\ IF wrote THEN SetItem ELSE UNCHANGED storage
         /\ UNCHANGED upload
         /\ tasks' = [tasks EXCEPT ![t] = FetchAllStart(tk, libsNow)]
         /\ ev' = e

\* mutant: a failed answer throws away what the loop gathered so far
Concat_Reset(allConvs, ok, convs) ==
    IF ok THEN allConvs \o NormalizeAll(convs) ELSE <<>>

\* `if (res.ok) { allConvs = allConvs.concat(convs.map(...)) }`
Concat(allConvs, ok, convs) ==
    IF ok THEN allConvs \o NormalizeAll(convs) ELSE allConvs

\* backend: GET /libraries/{id}/conversations
ServeListConversations(t) ==
    /\ Awaiting(t, "listConversations")
    /\ \E ok \in BOOLEAN :
        LET lib == tasks[t].snap[tasks[t].i]
            convs == Filter(srvConversations,
                            {c \in Range(srvConversations) : c.library_id = lib})
        IN tasks' = [tasks EXCEPT ![t].srv = TRUE, ![t].ok = ok,
                                  ![t].resp = IF ok THEN convs ELSE <<>>]
    /\ ev' = NoEv
    /\ UNCHANGED <<store, backend, storage, upload>>

\* the answer of one library is taken, then the next library or set()
ResumeListConversations(t) ==
    /\ Served(t, "listConversations")
    /\ UNCHANGED <<libraries, currentLibrary, currentConversation, backend>>
    /\ LET tk == tasks[t]
           allConvs == Concat(tk.acc, tk.ok, tk.resp)
           log == Append(tk.log, [lib |-> tk.snap[tk.i], ok |-> tk.ok, convs |-> tk.resp])
       IN IF tk.i < Len(tk.snap)
          THEN /\ tasks' = [tasks EXCEPT ![t] =
                              [tk EXCEPT !.srv = FALSE, !.ok = TRUE, !.i = tk.i + 1,
                                         !.acc = allConvs, !.log = log, !.resp = <<>>]]
               /\ ev' = NoEv
               /\ UNCHANGED <<conversations, storage, upload>>
          ELSE AfterFetchAll(t, tk, allConvs, libraries,
                             [Ev(tk, {"conversationsSet"}) EXCEPT !.log = log])

StartFetchAllConversations(t) ==
    /\ Idle(t)
    /\ UNCHANGED <<libraries, currentLibrary, currentConversation, backend>>
    /\ LET tk == [IdleTask EXCEPT !.op = "fetchAllConversations"]
       IN CallFetchAll(t, tk, libraries, Ev(tk, {"call"}), FALSE)

\* ------------------------------------------------- fetchLibraries (93-129)
\* the call itself: the list request is put on the wire
CallFetchLibraries(t) ==
    /\ Idle(t)
    /\ LET tk == [IdleTask EXCEPT !.op = "fetchLibraries"]
       IN /\ tasks' = [tasks EXCEPT ![t] = Issue(tk, "listLibraries")]
          /\ ev' = Ev(tk, {"call"})

StartFetchLibraries(t) ==
    /\ CallFetchLibraries(t)
    /\ UNCHANGED <<store, backend, storage, upload>>

\* initialize (88-91): fetchLibraries, then fetchAllConversations once more
StartInitialize(t) ==
    /\ Idle(t)
    /\ LET tk == [IdleTask EXCEPT !.op = "initialize", !.phase = 1]
       IN /\ tasks' = [tasks EXCEPT ![t] = Issue(tk, "listLibraries")]
          /\ ev' = Ev(tk, {"call"})
    /\ UNCHANGED <<store, backend, storage, upload>>

\* the body of the list answer: the libraries without their documents
ListResponse(srv) ==
    [k \in DOMAIN srv |-> [id |-> srv[k].id, name |-> srv[k].name, tags |-> srv[k].tags]]

\* backend: GET /libraries
ServeListLibraries(t) ==
    /\ Awaiting(t, "listLibraries")
    /\ \E ok \in BOOLEAN :
        tasks' = [tasks EXCEPT ![t].srv = TRUE, ![t].ok = ok,
                               ![t].libs = IF ok THEN ListResponse(srvLibraries) ELSE <<>>]
    /\ ev' = NoEv
    /\ UNCHANGED <<store, backend, storage, upload>>

\* mutant: the new list is merged into the old one, libraries the response no
\* longer has are kept
CommitLibraries_Merge(t, tk, newLibs) ==
    /\ UNCHANGED <<currentConversation, backend>>
    /\ libraries' = newLibs \o Filter(libraries,
                        {l \in Range(libraries) : l.id \notin Ids(newLibs)})
    /\ currentLibrary' = RepairSelection(currentLibrary, newLibs)
    /\ CallFetchAll(t, tk, newLibs,
                    [Ev(tk, {"librariesSet"}) EXCEPT
                        !.resp = [libs |-> tk.libs, docs |-> tk.docs],
                        !.was = [libraries |-> libraries,
                                 currentLibrary |-> currentLibrary]],
                    TRUE)

\* mutant: the conversation refresh goes over the list as it was before the
\* commit
CommitLibraries_QueryOld(t, tk, newLibs) ==
    /\ UNCHANGED <<currentConversation, backend>>
    /\ libraries' = newLibs
    /\ currentLibrary' = RepairSelection(currentLibrary, newLibs)
    /\ CallFetchAll(t, tk, libraries,
                    [Ev(tk, {"librariesSet"}) EXCEPT
                        !.resp = [libs |-> tk.libs, docs |-> tk.docs],
                        !.was = [libraries |-> libraries,
                                 currentLibrary |-> currentLibrary]],
                    TRUE)

\* mutant: the fetched libraries are appended to the list
CommitLibraries_Append(t, tk, newLibs) ==
    /\ UNCHANGED <<currentConversation, backend>>
    /\ libraries' = libraries \o newLibs
    /\ currentLibrary' = RepairSelection(currentLibrary, newLibs)
    /\ CallFetchAll(t, tk, newLibs,
                    [Ev(tk, {"librariesSet"}) EXCEPT
                        !.resp = [libs |-> tk.libs, docs |-> tk.docs],
                        !.was = [libraries |-> libraries,
                                 currentLibrary |-> currentLibrary]],
                    TRUE)

\* set((state) => ...) of fetchLibraries and the call of fetchAllConversations;
\* the step records the answers it was built from and the store it replaced
CommitLibraries(t, tk, newLibs) ==
    /\ UNCHANGED <<currentConversation, backend>>
    /\ libraries' = newLibs
    /\ currentLibrary' = RepairSelection(currentLibrary, newLibs)
    /\ CallFetchAll(t, tk, newLibs,
                    [Ev(tk, {"librariesSet"}) EXCEPT
                        !.resp = [libs |-> tk.libs, docs |-> tk.docs],
                        !.was = [libraries |-> libraries,
                                 currentLibrary |-> currentLibrary]],
                    TRUE)

\* `libs = await res.json()`; libs.map issues one document request per library.
\* A non-success answer carries no array: libs.map throws and the call fails.
ResumeListLibraries(t) ==
    /\ Served(t, "listLibraries")
    /\ LET tk == tasks[t]
       IN IF ~tk.ok
          THEN Fail(t, tk) /\ UNCHANGED <<store, backend, storage, upload>>
          ELSE IF tk.libs = <<>>
          THEN CommitLibraries(t, tk, <<>>)
          ELSE /\ tasks' = [tasks EXCEPT ![t] =
                              [tk EXCEPT !.pc = "listDocuments", !.srv = FALSE,
                                         !.pend = DOMAIN tk.libs,
                                         !.docs = [k \in DOMAIN tk.libs |-> <<>>]]]
               /\ ev' = NoEv
               /\ UNCHANGED <<store, backend, storage, upload>>

\* backend: GET /libraries/{id}/documents, for the requests of Promise.all in
\* any order; for a library deleted meanwhile the answer is an error or empty
ServeListDocuments(t, k) ==
    /\ tasks[t].pc = "listDocuments" /\ tasks[t].ok /\ k \in tasks[t].pend
    /\ \E ok \in BOOLEAN :
        LET found == FindFirst(srvLibraries,
                               {l \in Range(srvLibraries) : l.id = tasks[t].libs[k].id})
        IN tasks' = [tasks EXCEPT ![t].ok = ok, ![t].pend = @ \ {k},
                                  ![t].docs[k] = IF ok /\ found # <<>>
                                                 THEN found[1].documents ELSE <<>>]
    /\ ev' = NoEv
    /\ UNCHANGED <<store, backend, storage, upload>>

\* Promise.all settles: with every document list, the commit; with one
\* non-success answer docs.map throws, Promise.all rejects and nothing is set
ResumeListDocuments(t) ==
    /\ tasks[t].pc = "listDocuments"
    /\ tasks[t].pend = {} \/ ~tasks[t].ok
    /\ LET tk == tasks[t]
       IN IF ~tk.ok
          THEN Fail(t, tk) /\ UNCHANGED <<store, backend, storage, upload>>
          ELSE CommitLibraries(t, tk, BuildLibraries(tk.libs, tk.docs))

\* ------------------------------------------------- createLibrary (131-143)
InFlight(call) == Cardinality({t \in Tasks : Awaiting(t, call)})

StartCreateLibrary(t, name, tags) ==
    /\ Idle(t)
    /\ srvCreated.lib + InFlight("createLibrary") < MaxLibs
    /\ LET tk == [IdleTask EXCEPT !.op = "createLibrary", !.name = name, !.tags = tags]
       IN /\ tasks' = [tasks EXCEPT ![t] = Issue(tk, "createLibrary")]
          /\ ev' = Ev(tk, {"call"})
    /\ UNCHANGED <<store, backend, storage, upload>>

\* backend: POST /libraries; the name and the tags string are stored as sent
ServeCreateLibrary(t) ==
    /\ Awaiting(t, "createLibrary")
    /\ \E ok \in BOOLEAN :
        /\ tasks' = [tasks EXCEPT ![t].srv = TRUE, ![t].ok = ok]
        /\ IF ok
           THEN /\ srvCreated' = [srvCreated EXCEPT !.lib = @ + 1]
                /\ srvLibraries' = Append(srvLibraries,
                        [id |-> LibId(srvCreated.lib + 1), name |-> tasks[t].name,
                         tags |-> tasks[t].tags, documents |-> <<>>])
           ELSE UNCHANGED <<srvCreated, srvLibraries>>
    /\ ev' = NoEv
    /\ UNCHANGED <<store, storage, upload, srvConversations>>

\* mutant: res.ok is not looked at, the refresh follows a failed create
ResumeCreateLibrary_NoCheck(t) ==
    /\ Served(t, "createLibrary")
    /\ tasks' = [tasks EXCEPT ![t] = Issue(tasks[t], "listLibraries")]
    /\ ev' = NoEv
    /\ UNCHANGED <<store, backend, storage, upload>>

\* `if (!res.ok) throw ...; await get().fetchLibraries()`
ResumeCreateLibrary(t) ==
    /\ Served(t, "createLibrary")
    /\ LET tk == tasks[t]
       IN IF ~tk.ok
          THEN Fail(t, tk)
          ELSE /\ tasks' = [tasks EXCEPT ![t] = Issue(tk, "listLibraries")]
               /\ ev' = NoEv
    /\ UNCHANGED <<store, backend, storage, upload>>

\* ------------------------------------------------- deleteLibrary (145-148)
StartDeleteLibrary(t, id) ==
    /\ Idle(t)
    /\ LET tk == [IdleTask EXCEPT !.op = "deleteLibrary", !.id = id]
       IN /\ tasks' = [tasks EXCEPT ![t] = Issue(tk, "deleteLibrary")]
          /\ ev' = Ev(tk, {"call"})
    /\ UNCHANGED <<store, backend, storage, upload>>

\* backend: DELETE /libraries/{id}; its conversations go with the library
ServeDeleteLibrary(t) ==
    /\ Awaiting(t, "deleteLibrary")
    /\ \E ok \in BOOLEAN :
        /\ tasks' = [tasks EXCEPT ![t].srv = TRUE, ![t].ok = ok]
        /\ IF ok
           THEN /\ srvLibraries' = Filter(srvLibraries,
                        {l \in Range(srvLibraries) : l.id # tasks[t].id})
                /\ srvConversations' = Filter(srvConversations,
                        {c \in Range(srvConversations) : c.library_id # tasks[t].id})
           ELSE UNCHANGED <<srvLibraries, srvConversations>>
    /\ ev' = NoEv
    /\ UNCHANGED <<store, storage, upload, srvCreated>>

\* the answer is not looked at: `await get().fetchLibraries()`; the outcome of
\* the delete is remembered in del, for the record of the steps only
ResumeDeleteLibrary(t) ==
    /\ Served(t, "deleteLibrary")
    /\ tasks' = [tasks EXCEPT ![t] =
                    [Issue(tasks[t], "listLibraries") EXCEPT !.del = tasks[t].ok]]
    /\ ev' = NoEv
    /\ UNCHANGED <<store, backend, storage, upload>>

\* ------------------------------------- local operations (150-177)
SetCurrentLibrary(library) ==
    /\ currentLibrary' = library
    /\ ev' = [NoEv EXCEPT !.op = "setCurrentLibrary", !.step = {"call", "done"},
                          !.arg = library]
    /\ UNCHANGED <<libraries, conversations, currentConversation, backend, tasks>>
    /\ SetItem
    /\ UNCHANGED upload

AddDocument(libraryId, document) ==
    /\ \A k \in DOMAIN libraries :
          libraries[k].id = libraryId => Len(libraries[k].documents) < MaxDocs
    /\ libraries' = AddDocumentTo(libraries, libraryId, document)
    /\ ev' = [NoEv EXCEPT !.op = "addDocument", !.step = {"call", "done"},
                          !.id = libraryId, !.arg = <<document>>,
                          !.was = [libraries |-> libraries,
                                   currentLibrary |-> currentLibrary]]
    /\ UNCHANGED <<currentLibrary, conversations, currentConversation, backend, tasks>>
    /\ SetItem
    /\ UNCHANGED upload

RemoveDocument(libraryId, documentId) ==
    /\ libraries' = RemoveDocumentFrom(libraries, libraryId, documentId)
    /\ ev' = [NoEv EXCEPT !.op = "removeDocument", !.step = {"call", "done"},
                          !.id = libraryId, !.arg = <<documentId>>]
    /\ UNCHANGED <<currentLibrary, conversations, currentConversation, backend, tasks>>
    /\ SetItem
    /\ UNCHANGED upload

\* backend: POST /libraries/{id}/documents, the upload of PDFUploader
ServeUpload(libraryId, document) ==
    /\ \E k \in DOMAIN srvLibraries :
        /\ srvLibraries[k].id = libraryId
        /\ document \notin Range(srvLibraries[k].documents)
        /\ srvLibraries' = [srvLibraries EXCEPT ![k].documents = Append(@, document)]
    /\ ev' = NoEv
    /\ UNCHANGED <<store, storage, upload, srvConversations, srvCreated, tasks>>

\* ------------------------------------------- createConversation (179-195)
\* mutant: the conversation is put into the list when the call is issued
StartCreateConversation_Optimistic(t, libraryId, title) ==
    /\ Idle(t)
    /\ srvCreated.conv + InFlight("createConversation") < MaxConvs
    /\ LET tk == [IdleTask EXCEPT !.op = "createConversation", !.id = libraryId,
                                  !.title = title]
       IN /\ tasks' = [tasks EXCEPT ![t] = Issue(tk, "createConversation")]
          /\ ev' = Ev(tk, {"call"})
    /\ conversations' = Append(conversations,
                               [id |-> "", title |-> title, library_id |-> libraryId,
                                libraryId |-> libraryId, messages |-> <<>>])
    /\ UNCHANGED <<libraries, currentLibrary, currentConversation, backend>>
    /\ SetItem
    /\ UNCHANGED upload

StartCreateConversation(t, libraryId, title) ==
    /\ Idle(t)
    /\ srvCreated.conv + InFlight("createConversation") < MaxConvs
    /\ LET tk == [IdleTask EXCEPT !.op = "createConversation", !.id = libraryId,
                                  !.title = title]
       IN /\ tasks' = [tasks EXCEPT ![t] = Issue(tk, "createConversation")]
          /\ ev' = Ev(tk, {"call"})
    /\ UNCHANGED <<store, backend, storage, upload>>

\* backend: POST /libraries/{id}/conversations; made is the id of the
\* conversation this call created, which the client never reads
ServeCreateConversation(t) ==
    /\ Awaiting(t, "createConversation")
    /\ \E ok \in BOOLEAN :
        /\ ok => tasks[t].id \in Ids(srvLibraries)
        /\ tasks' = [tasks EXCEPT ![t].srv = TRUE, ![t].ok = ok,
                                  ![t].made = IF ok THEN ConvId(srvCreated.conv + 1)
                                              ELSE ""]
        /\ IF ok
           THEN /\ srvCreated' = [srvCreated EXCEPT !.conv = @ + 1]
                /\ srvConversations' = Append(srvConversations,
                        [id |-> ConvId(srvCreated.conv + 1), library_id |-> tasks[t].id,
                         title |-> tasks[t].title, messages |-> <<>>])
           ELSE UNCHANGED <<srvCreated, srvConversations>>
    /\ ev' = NoEv
    /\ UNCHANGED <<store, storage, upload, srvLibraries>>

\* `if (!res.ok) throw ...; await get().fetchAllConversations()`, then the find
ResumeCreateConversation(t) ==
    /\ Served(t, "createConversation")
    /\ UNCHANGED <<libraries, currentLibrary, currentConversation, backend>>
    /\ LET tk == tasks[t]
       IN IF ~tk.ok
          THEN Fail(t, tk) /\ UNCHANGED <<conversations, storage, upload>>
          ELSE CallFetchAll(t, tk, libraries, Ev(tk, {}), FALSE)

\* ------------------------------------------- fetchConversation (282-299)
StartFetchConversation(t, conversationId) ==
    /\ Idle(t)
    /\ LET tk == [IdleTask EXCEPT !.op = "fetchConversation", !.id = conversationId]
       IN /\ tasks' = [tasks EXCEPT ![t] = Issue(tk, "getConversation")]
          /\ ev' = Ev(tk, {"call"})
    /\ UNCHANGED <<store, backend, storage, upload>>

\* backend: GET /libraries/conversations/{id}
ServeGetConversation(t) ==
    /\ Awaiting(t, "getConversation")
    /\ \E ok \in BOOLEAN :
        LET found == FindFirst(srvConversations,
                               {c \in Range(srvConversations) : c.id = tasks[t].id})
        IN /\ ok => found # <<>>
           /\ tasks' = [tasks EXCEPT ![t].srv = TRUE, ![t].ok = ok,
                                     ![t].resp = IF ok THEN found ELSE <<>>]
    /\ ev' = NoEv
    /\ UNCHANGED <<store, backend, storage, upload>>

\* `if (!res.ok) throw ...`, the fields added to conv, then set()
ResumeGetConversation(t) ==
    /\ Served(t, "getConversation")
    /\ LET tk == tasks[t]
       IN IF ~tk.ok
          THEN Fail(t, tk) /\ UNCHANGED <<store, storage, upload>>
          ELSE LET conv == NormalizeConversation(tk.resp[1])
               IN /\ conversations' = PatchConversation(conversations, tk.id, conv)
                  /\ currentConversation' = <<conv>>
                  /\ tasks' = Release(t)
                  /\ ev' = [Ev(tk, {"conversationSet", "done"}) EXCEPT !.ret = <<conv>>]
                  /\ UNCHANGED <<libraries, currentLibrary>>
                  /\ SetItem
                  /\ UNCHANGED upload
    /\ UNCHANGED backend

\* ------------------------------------------------- addMessage (197-210)
Stored(conversationId) ==
    LET found == FindFirst(srvConversations,
                           {c \in Range(srvConversations) : c.id = conversationId})
    IN IF found = <<>> THEN 0 ELSE Len(found[1].messages)

StartAddMessage(t, conversationId, message) ==
    /\ Idle(t)
    /\ Stored(conversationId)
         + Cardinality({u \in Tasks : Awaiting(u, "appendMessage")
                                       /\ tasks[u].id = conversationId}) < MaxMsgs
    /\ LET tk == [IdleTask EXCEPT !.op = "addMessage", !.id = conversationId,
                                  !.msg = message]
       IN /\ tasks' = [tasks EXCEPT ![t] = Issue(tk, "appendMessage")]
          /\ ev' = Ev(tk, {"call"})
    /\ UNCHANGED <<store, backend, storage, upload>>

\* backend: POST /libraries/conversations/{id}/messages
ServeAppendMessage(t) ==
    /\ Awaiting(t, "appendMessage")
    /\ \E ok \in BOOLEAN :
        /\ ok => tasks[t].id \in Ids(srvConversations)
        /\ tasks' = [tasks EXCEPT ![t].srv = TRUE, ![t].ok = ok]
        /\ srvConversations' =
              IF ok
              THEN [k \in DOMAIN srvConversations |->
                      IF srvConversations[k].id = tasks[t].id
                      THEN [srvConversations[k] EXCEPT !.messages = Append(@, tasks[t].msg)]
                      ELSE srvConversations[k]]
              ELSE srvConversations
    /\ ev' = NoEv
    /\ UNCHANGED <<store, storage, upload, srvLibraries, srvCreated>>

\* mutant: res.ok is not looked at, the conversation is re-fetched anyway
ResumeAppendMessage_NoCheck(t) ==
    /\ Served(t, "appendMessage")
    /\ tasks' = [tasks EXCEPT ![t] = Issue(tasks[t], "getConversation")]
    /\ ev' = NoEv
    /\ UNCHANGED <<store, backend, storage, upload>>

\* `if (!res.ok) throw ...; await get().fetchConversation(conversationId)`
ResumeAppendMessage(t) ==
    /\ Served(t, "appendMessage")
    /\ LET tk == tasks[t]
       IN IF ~tk.ok
          THEN Fail(t, tk)
          ELSE /\ tasks' = [tasks EXCEPT ![t] = Issue(tk, "getConversation")]
               /\ ev' = NoEv
    /\ UNCHANGED <<store, backend, storage, upload>>

\* ------------------------------------------- deleteConversation (225-241)
\* the optimistic set() and the DELETE request
StartDeleteConversation(t, conversationId) ==
    /\ Idle(t)
    /\ conversations' = DropConversation(conversations, conversationId)
    /\ currentConversation' = DropCurrent(currentConversation, conversationId)
    /\ LET tk == [IdleTask EXCEPT !.op = "deleteConversation", !.id = conversationId]
       IN /\ tasks' = [tasks EXCEPT ![t] = Issue(tk, "deleteConversation")]
          /\ ev' = Ev(tk, {"call", "optimisticSet"})
    /\ UNCHANGED <<libraries, currentLibrary, backend>>
    /\ SetItem
    /\ UNCHANGED upload

\* backend: DELETE /libraries/conversations/{id}
ServeDeleteConversation(t) ==
    /\ Awaiting(t, "deleteConversation")
    /\ \E ok \in BOOLEAN :
        /\ tasks' = [tasks EXCEPT ![t].srv = TRUE, ![t].ok = ok]
        /\ srvConversations' =
              IF ok
              THEN Filter(srvConversations,
                          {c \in Range(srvConversations) : c.id # tasks[t].id})
              ELSE srvConversations
    /\ ev' = NoEv
    /\ UNCHANGED <<store, storage, upload, srvLibraries, srvCreated>>

\* mutant: a non-success answer of the delete fails the operation
ResumeDeleteConversation_Checked(t) ==
    /\ Served(t, "deleteConversation")
    /\ UNCHANGED <<libraries, currentLibrary, currentConversation, backend>>
    /\ LET tk == [tasks[t] EXCEPT !.del = tasks[t].ok]
       IN IF ~tk.ok
          THEN Fail(t, tk) /\ UNCHANGED <<conversations, storage, upload>>
          ELSE CallFetchAll(t, tk, libraries, Ev(tk, {}), FALSE)

\* the answer is not looked at: `await get().fetchAllConversations()`
ResumeDeleteConversation(t) ==
    /\ Served(t, "deleteConversation")
    /\ UNCHANGED <<libraries, currentLibrary, currentConversation, backend>>
    /\ LET tk == [tasks[t] EXCEPT !.del = tasks[t].ok]
       IN CallFetchAll(t, tk, libraries, Ev(tk, {}), FALSE)

\* ------------------------------------- updateConversationTitle (243-257)
\* mutant: the title is patched in the local list when the call is issued
StartUpdateConversationTitle_Patch(t, conversationId, newTitle) ==
    /\ Idle(t)
    /\ LET tk == [IdleTask EXCEPT !.op = "updateConversationTitle",
                                  !.id = conversationId, !.title = newTitle]
       IN /\ tasks' = [tasks EXCEPT ![t] = Issue(tk, "patchTitle")]
          /\ ev' = Ev(tk, {"call"})
    /\ conversations' = [k \in DOMAIN conversations |->
                            IF conversations[k].id = conversationId
                            THEN [conversations[k] EXCEPT !.title = newTitle]
                            ELSE conversations[k]]
    /\ UNCHANGED <<libraries, currentLibrary, currentConversation, backend>>
    /\ SetItem
    /\ UNCHANGED upload

StartUpdateConversationTitle(t, conversationId, newTitle) ==
    /\ Idle(t)
    /\ LET tk == [IdleTask EXCEPT !.op = "updateConversationTitle",
                                  !.id = conversationId, !.title = newTitle]
       IN /\ tasks' = [tasks EXCEPT ![t] = Issue(tk, "patchTitle")]
          /\ ev' = Ev(tk, {"call"})
    /\ UNCHANGED <<store, backend, storage, upload>>

\* backend: PATCH /libraries/conversations/{id}
ServePatchTitle(t) ==
    /\ Awaiting(t, "patchTitle")
    /\ \E ok \in BOOLEAN :
        /\ ok => tasks[t].id \in Ids(srvConversations)
        /\ tasks' = [tasks EXCEPT ![t].srv = TRUE, ![t].ok = ok]
        /\ srvConversations' =
              IF ok
              THEN [k \in DOMAIN srvConversations |->
                      IF srvConversations[k].id = tasks[t].id
                      THEN [srvConversations[k] EXCEPT !.title = tasks[t].title]
                      ELSE srvConversations[k]]
              ELSE srvConversations
    /\ ev' = NoEv
    /\ UNCHANGED <<store, storage, upload, srvLibraries, srvCreated>>

\* `if (!res.ok) throw ...; await get().fetchAllConversations()`
ResumePatchTitle(t) ==
    /\ Served(t, "patchTitle")
    /\ UNCHANGED <<libraries, currentLibrary, currentConversation, backend>>
    /\ LET tk == tasks[t]
       IN IF ~tk.ok
          THEN Fail(t, tk) /\ UNCHANGED <<conversations, storage, upload>>
          ELSE CallFetchAll(t, tk, libraries, Ev(tk, {}), FALSE)

\* mutant: the owning library is not re-selected
SetCurrentConversation_NoReselect(conversation) ==
    /\ currentConversation' = conversation
    /\ ev' = [NoEv EXCEPT !.op = "setCurrentConversation", !.step = {"call", "done"},
                          !.arg = conversation,
                          !.was = [libraries |-> libraries,
                                   currentLibrary |-> currentLibrary]]
    /\ UNCHANGED <<libraries, currentLibrary, conversations, backend, tasks>>
    /\ SetItem
    /\ UNCHANGED upload

\* ------------------------------------- setCurrentConversation (212-223)
SetCurrentConversation(conversation) ==
    /\ currentLibrary' = LibraryOf(currentLibrary, libraries, conversation)
    /\ currentConversation' = conversation
    /\ ev' = [NoEv EXCEPT !.op = "setCurrentConversation", !.step = {"call", "done"},
                          !.arg = conversation,
                          !.was = [libraries |-> libraries,
                                   currentLibrary |-> currentLibrary]]
    /\ UNCHANGED <<libraries, conversations, backend, tasks>>
    /\ SetItem
    /\ UNCHANGED upload

\* ------------------------------------- persistence (persist options, 300-319)
Hex == {"0", "1", "2", "3", "4", "5", "6", "7", "8", "9",
        "a", "b", "c", "d", "e", "f", "A", "B", "C", "D", "E", "F"}

RECURSIVE MatchGroups(_, _)
\* /^[0-9a-f]{8}-[0-9a-f]{4}-[0-9a-f]{4}-[0-9a-f]{4}-[0-9a-f]{12}$/i, matched
\* from the left: a group of hex digits of each length, with "-" between
MatchGroups(s, lengths) ==
    IF lengths = <<>> THEN s = <<>>
    ELSE LET n == Head(lengths)
         IN /\ Len(s) >= n
            /\ \A i \in 1..n : s[i] \in Hex
            /\ IF Tail(lengths) = <<>>
               THEN Len(s) = n
               ELSE /\ Len(s) > n /\ s[n + 1] = "-"
                    /\ MatchGroups(SubSeq(s, n + 2, Len(s)), Tail(lengths))

UuidRegexTest(id) == MatchGroups(id, <<8, 4, 4, 4, 12>>)

\* migrate: the snapshot with the conversations whose id passes the test
Migrate(state) ==
    [state EXCEPT !.conversations =
        Filter(@, {conv \in Range(@) : UuidRegexTest(conv.id)})]

\* the persist middleware loading the snapshot at start: migrate is called
\* when the snapshot was stored under another version than StoreVersion, the
\* stored state is taken as it is otherwise; the result is merged into the store
Rehydrate(t) ==
    /\ tasks[t].op = "rehydrate"
    /\ LET tk == tasks[t]
           state == IF tk.stored[1].version # StoreVersion
                    THEN Migrate(tk.stored[1].state)
                    ELSE tk.stored[1].state
       IN /\ libraries' = IF tk.stored = <<>> THEN libraries ELSE state.libraries
          /\ conversations' = IF tk.stored = <<>> THEN conversations
                               ELSE state.conversations
          /\ tasks' = Release(t)
          /\ ev' = [Ev(tk, {"rehydrated", "done"}) EXCEPT !.arg = tk.stored]
    /\ UNCHANGED <<currentLibrary, currentConversation, backend>>
    /\ SetItem
    /\ UNCHANGED upload

\* a restart of the application: the store is constructed anew with its
\* initial state, whatever was in flight is gone with the page, and the
\* middleware reads the entry the last run left
Restart ==
    /\ \A u \in Tasks : tasks[u].op # "rehydrate"
    /\ libraries' = <<>>
    /\ currentLibrary' = <<>>
    /\ conversations' = <<>>
    /\ currentConversation' = <<>>
    /\ tasks' = [t \in Tasks |->
                   IF t = 1
                   THEN [IdleTask EXCEPT !.op = "rehydrate", !.pc = "getItem",
                                         !.stored = storage]
                   ELSE IdleTask]
    /\ ev' = [NoEv EXCEPT !.op = "restart", !.step = {"restart"},
                          !.arg = storage,
                          !.was = [libraries |-> libraries,
                                   currentLibrary |-> currentLibrary]]
    /\ UNCHANGED <<backend, storage, upload>>

\* ------------------------------------------------------ specifications
Quiet == \A u \in Tasks : tasks[u].op = "idle"

\* the conversations a caller can name: those listed and the current one
Known == Range(conversations) \cup Range(currentConversation)

\* the backend serving, and the continuations of, the two refreshes
RefreshSteps ==
    \/ \E t \in Tasks : ServeListLibraries(t)
    \/ \E t \in Tasks : ResumeListLibraries(t)
    \/ \E t \in Tasks : \E k \in 1..MaxLibs : ServeListDocuments(t, k)
    \/ \E t \in Tasks : ResumeListDocuments(t)
    \/ \E t \in Tasks : ServeListConversations(t)
    \/ \E t \in Tasks : ResumeListConversations(t)

\* ... of createLibrary and deleteLibrary
LibrarySteps ==
    \/ \E t \in Tasks : ServeCreateLibrary(t)
    \/ \E t \in Tasks : ResumeCreateLibrary(t)
    \/ \E t \in Tasks : ServeDeleteLibrary(t)
    \/ \E t \in Tasks : ResumeDeleteLibrary(t)

\* SpecLib: the library list and its selection, with operations overlapping
NextLib ==
    \/ \E t \in Tasks : StartFetchLibraries(t)
    \/ \E t \in Tasks : StartCreateLibrary(t, "Physics", NoTags)
    \/ \E t \in Tasks : \E id \in Ids(libraries) : StartDeleteLibrary(t, id)
    \/ RefreshSteps
    \/ LibrarySteps
    \/ \E l \in Range(libraries) : SetCurrentLibrary(<<l>>)

SpecLib == Init /\ [][NextLib]_vars

\* SpecDocs: libraries with their documents, one asynchronous operation at a
\* time; the local operations and the backend's uploads fall anywhere
NextDocs ==
    \/ Quiet /\ StartFetchLibraries(1)
    \/ Quiet /\ StartInitialize(1)
    \/ Quiet /\ StartCreateLibrary(1, "Physics", NoTags)
    \/ Quiet /\ \E id \in Ids(libraries) : StartDeleteLibrary(1, id)
    \/ RefreshSteps
    \/ LibrarySteps
    \/ \E l \in Range(libraries) : SetCurrentLibrary(<<l>>)
    \/ \E id \in Ids(libraries), d \in DocIds : AddDocument(id, d)
    \/ \E id \in Ids(libraries), d \in DocIds : RemoveDocument(id, d)
    \/ \E id \in Ids(srvLibraries), d \in DocIds : ServeUpload(id, d)

SpecDocs == Init /\ [][NextDocs]_vars

\* SpecConv: creating, reading and changing conversations, one asynchronous
\* operation at a time
NextConv ==
    \/ Quiet /\ StartCreateLibrary(1, "Physics", NoTags)
    \/ Quiet /\ StartFetchAllConversations(1)
    \/ Quiet /\ \E id \in Ids(libraries), ti \in Titles : StartCreateConversation(1, id, ti)
    \/ Quiet /\ \E c \in Known : StartFetchConversation(1, c.id)
    \/ Quiet /\ \E c \in Known, m \in MsgIds : StartAddMessage(1, c.id, m)
    \/ Quiet /\ \E c \in Range(conversations), ti \in Titles :
                    StartUpdateConversationTitle(1, c.id, ti)
    \/ RefreshSteps
    \/ \E t \in Tasks : ServeCreateLibrary(t)
    \/ \E t \in Tasks : ResumeCreateLibrary(t)
    \/ \E t \in Tasks : ServeCreateConversation(t)
    \/ \E t \in Tasks : ResumeCreateConversation(t)
    \/ \E t \in Tasks : ServeGetConversation(t)
    \/ \E t \in Tasks : ResumeGetConversation(t)
    \/ \E t \in Tasks : ServeAppendMessage(t)
    \/ \E t \in Tasks : ResumeAppendMessage(t)
    \/ \E t \in Tasks : ServePatchTitle(t)
    \/ \E t \in Tasks : ResumePatchTitle(t)

SpecConv == Init /\ [][NextConv]_vars

\* a backend that already holds a library and a conversation of it when the
\* client starts with its empty store
InitSel ==
    /\ libraries = <<>>
    /\ currentLibrary = <<>>
    /\ conversations = <<>>
    /\ currentConversation = <<>>
    /\ srvLibraries = <<[id |-> LibId(1), name |-> "Physics", tags |-> NoTags,
                          documents |-> <<>>]>>
    /\ srvConversations = <<[id |-> ConvId(1), library_id |-> LibId(1), title |-> "A",
                              messages |-> <<>>]>>
    /\ srvCreated = [lib |-> 1, conv |-> 1]
    /\ tasks = [t \in Tasks |-> IdleTask]
    /\ ev = NoEv
    /\ upload = NoUpload
    /\ storage = Written(libraries, currentLibrary, conversations, currentConversation)

\* SpecSel: the two selections under overlapping library operations
NextSel ==
    \/ \E t \in Tasks : StartFetchLibraries(t)
    \/ \E t \in Tasks : StartCreateLibrary(t, "Physics", NoTags)
    \/ \E t \in Tasks : \E id \in Ids(libraries) : StartDeleteLibrary(t, id)
    \/ RefreshSteps
    \/ LibrarySteps
    \/ \E l \in Range(libraries) : SetCurrentLibrary(<<l>>)
    \/ \E c \in Known : SetCurrentConversation(<<c>>)
    \/ SetCurrentConversation(<<>>)

SpecSel == InitSel /\ [][NextSel]_vars

\* SpecOne: the selections and every operation that replaces or patches the
\* conversation list, one asynchronous operation at a time
NextOne ==
    \/ Quiet /\ StartFetchLibraries(1)
    \/ Quiet /\ StartFetchAllConversations(1)
    \/ Quiet /\ StartCreateLibrary(1, "Physics", NoTags)
    \/ Quiet /\ \E id \in Ids(libraries) : StartDeleteLibrary(1, id)
    \/ Quiet /\ \E c \in Known : StartFetchConversation(1, c.id)
    \/ Quiet /\ \E c \in Range(conversations) : StartDeleteConversation(1, c.id)
    \/ RefreshSteps
    \/ LibrarySteps
    \/ \E t \in Tasks : ServeGetConversation(t)
    \/ \E t \in Tasks : ResumeGetConversation(t)
    \/ \E t \in Tasks : ServeDeleteConversation(t)
    \/ \E t \in Tasks : ResumeDeleteConversation(t)
    \/ \E l \in Range(libraries) : SetCurrentLibrary(<<l>>)
    \/ \E c \in Known : SetCurrentConversation(<<c>>)
    \/ SetCurrentConversation(<<>>)

SpecOne == InitSel /\ [][NextOne]_vars

\* the client after a first load of what the backend of InitSel holds: the
\* library and its conversation are listed, the library is selected
InitLoaded ==
    /\ srvLibraries = <<[id |-> LibId(1), name |-> "Physics", tags |-> NoTags,
                          documents |-> <<>>]>>
    /\ srvConversations = <<[id |-> ConvId(1), library_id |-> LibId(1), title |-> "A",
                              messages |-> <<>>]>>
    /\ srvCreated = [lib |-> 1, conv |-> 1]
    /\ libraries = BuildLibraries(ListResponse(srvLibraries), <<<<>>>>)
    /\ currentLibrary = RepairSelection(<<>>, libraries)
    /\ conversations = NormalizeAll(srvConversations)
    /\ currentConversation = <<>>
    /\ tasks = [t \in Tasks |-> IdleTask]
    /\ ev = NoEv
    /\ upload = NoUpload
    /\ storage = Written(libraries, currentLibrary, conversations, currentConversation)

\* SpecMsg: messages sent to, and fetches of, the listed conversations, with
\* calls overlapping as the two addMessage calls of handleSendMessage do
NextMsg ==
    \/ \E t \in Tasks : \E c \in Known : StartFetchConversation(t, c.id)
    \/ \E t \in Tasks : \E c \in Known, m \in MsgIds : StartAddMessage(t, c.id, m)
    \/ \E t \in Tasks : ServeGetConversation(t)
    \/ \E t \in Tasks : ResumeGetConversation(t)
    \/ \E t \in Tasks : ServeAppendMessage(t)
    \/ \E t \in Tasks : ResumeAppendMessage(t)
    \/ \E c \in Known : SetCurrentConversation(<<c>>)
    \/ SetCurrentConversation(<<>>)

SpecMsg == InitLoaded /\ [][NextMsg]_vars

\* SpecDel: conversations created, selected and deleted in one library, one
\* asynchronous operation at a time
NextDel ==
    \/ Quiet /\ \E id \in Ids(libraries), ti \in Titles : StartCreateConversation(1, id, ti)
    \/ Quiet /\ \E c \in Range(conversations) : StartDeleteConversation(1, c.id)
    \/ \E t \in Tasks : ServeCreateConversation(t)
    \/ \E t \in Tasks : ResumeCreateConversation(t)
    \/ \E t \in Tasks : ServeDeleteConversation(t)
    \/ \E t \in Tasks : ResumeDeleteConversation(t)
    \/ \E t \in Tasks : ServeListConversations(t)
    \/ \E t \in Tasks : ResumeListConversations(t)
    \/ \E c \in Known : SetCurrentConversation(<<c>>)
    \/ SetCurrentConversation(<<>>)

SpecDel == InitLoaded /\ [][NextDel]_vars

\* SpecSeq: libraries and conversations are created and the conversation list
\* is refreshed, one operation after the other; nothing is renamed or deleted,
\* so the backend holds exactly the conversations that createConversation
\* calls created, each with the library and the title of its call
NextSeq ==
    \/ Quiet /\ StartCreateLibrary(1, "Physics", NoTags)
    \/ Quiet /\ StartFetchAllConversations(1)
    \/ Quiet /\ \E id \in Ids(libraries), ti \in Titles : StartCreateConversation(1, id, ti)
    \/ RefreshSteps
    \/ \E t \in Tasks : ServeCreateLibrary(t)
    \/ \E t \in Tasks : ResumeCreateLibrary(t)
    \/ \E t \in Tasks : ServeCreateConversation(t)
    \/ \E t \in Tasks : ResumeCreateConversation(t)

SpecSeq == Init /\ [][NextSeq]_vars

\* SpecTags: libraries created with any of the names and tags strings, one
\* after the other, starting with no library at all
NextTags ==
    \/ Quiet /\ \E n \in Names, tg \in TagStrings : StartCreateLibrary(1, n, tg)
    \/ RefreshSteps
    \/ \E t \in Tasks : ServeCreateLibrary(t)
    \/ \E t \in Tasks : ResumeCreateLibrary(t)

SpecTags == Init /\ [][NextTags]_vars

\* a client starting with its empty store against a backend that holds two
\* libraries, one with a document and tags, and a conversation in each
InitFull ==
    /\ libraries = <<>>
    /\ currentLibrary = <<>>
    /\ conversations = <<>>
    /\ currentConversation = <<>>
    /\ srvLibraries = <<[id |-> LibId(1), name |-> "Physics", tags |-> <<"a", ",", "b">>,
                          documents |-> <<"d1">>],
                         [id |-> LibId(2), name |-> "Maths", tags |-> NoTags,
                          documents |-> <<>>]>>
    /\ srvConversations = <<[id |-> ConvId(1), library_id |-> LibId(1), title |-> "A",
                              messages |-> <<"m1">>],
                             [id |-> ConvId(2), library_id |-> LibId(2), title |-> "B",
                              messages |-> <<>>]>>
    /\ srvCreated = [lib |-> 2, conv |-> 2]
    /\ tasks = [t \in Tasks |-> IdleTask]
    /\ ev = NoEv
    /\ upload = NoUpload
    /\ storage = Written(libraries, currentLibrary, conversations, currentConversation)

\* SpecInit: initialize called again and again, the calls overlapping, against
\* a backend that does not change
NextInit ==
    \/ \E t \in Tasks : StartInitialize(t)
    \/ RefreshSteps

SpecInit == InitFull /\ [][NextInit]_vars

Rep(c, n) == [i \in 1..n |-> c]
\* an id of the 8-4-4-4-12 shape written with the character c
Shaped(c) ==
    Rep(c, 8) \o <<"-">> \o Rep(c, 4) \o <<"-">> \o Rep(c, 4) \o <<"-">>
        \o Rep(c, 4) \o <<"-">> \o Rep(c, 12)

\* ids found in a stored snapshot: well-formed ones in either case, "local-42",
\* one with a letter that is no hex digit, one too long, one without dashes
StoredIds ==
    {Shaped("a"), Shaped("F"), <<"l", "o", "c", "a", "l", "-", "4", "2">>,
     Shaped("g"), Shaped("0") \o <<"0">>, Rep("b", 32)}

StoredConversation(id) ==
    [id |-> id, library_id |-> LibId(1), libraryId |-> LibId(1), title |-> "A",
     messages |-> <<>>]

\* the process starts: the store is empty and the middleware has read what
\* local storage holds under "library-store", written by this build
\* (StoreVersion) or by a build with another version number
InitPersist ==
    /\ libraries = <<>>
    /\ currentLibrary = <<>>
    /\ conversations = <<>>
    /\ currentConversation = <<>>
    /\ srvLibraries = <<>>
    /\ srvConversations = <<>>
    /\ srvCreated = [lib |-> 0, conv |-> 0]
    /\ ev = NoEv
    /\ \E ids \in {<<>>} \cup {<<a>> : a \in StoredIds}
                        \cup {p \in StoredIds \X StoredIds : p[1] # p[2]},
          libs \in {<<>>, <<[id |-> LibId(1), name |-> "Physics", tags |-> <<>>,
                             documents |-> <<>>]>>},
          version \in {StoreVersion, StoreVersion + 1} :
          /\ upload = NoUpload
          /\ storage = <<[state |->
                             [libraries |-> libs,
                              conversations |->
                                 [k \in DOMAIN ids |-> StoredConversation(ids[k])]],
                           version |-> version]>>
          /\ tasks = [t \in Tasks |->
                        IF t = 1
                        THEN [IdleTask EXCEPT !.op = "rehydrate", !.pc = "getItem",
                                              !.stored = storage]
                        ELSE IdleTask]

SpecPersist == InitPersist /\ [][\E t \in Tasks : Rehydrate(t)]_vars

\* SpecStore: selections, documents, conversations created and deleted, and
\* restarts of the application at any moment; loading the entry is part of
\* constructing the store, so nothing else runs before it is done
Hydrating == \E u \in Tasks : tasks[u].op = "rehydrate"

NextStore ==
    \/ Restart
    \/ \E t \in Tasks : Rehydrate(t)
    \/ ~Hydrating /\ Quiet
          /\ \E id \in Ids(libraries), ti \in Titles : StartCreateConversation(1, id, ti)
    \/ ~Hydrating /\ Quiet /\ \E c \in Range(conversations) : StartDeleteConversation(1, c.id)
    \/ \E t \in Tasks : ServeCreateConversation(t)
    \/ \E t \in Tasks : ResumeCreateConversation(t)
    \/ \E t \in Tasks : ServeDeleteConversation(t)
    \/ \E t \in Tasks : ResumeDeleteConversation(t)
    \/ \E t \in Tasks : ServeListConversations(t)
    \/ \E t \in Tasks : ResumeListConversations(t)
    \/ ~Hydrating /\ \E c \in Known : SetCurrentConversation(<<c>>)
    \/ ~Hydrating /\ \E l \in Range(libraries) : SetCurrentLibrary(<<l>>)
    \/ ~Hydrating /\ \E id \in Ids(libraries), d \in DocIds : AddDocument(id, d)
    \/ ~Hydrating /\ \E id \in Ids(libraries), d \in DocIds : RemoveDocument(id, d)

SpecStore == InitLoaded /\ [][NextStore]_vars

\* SpecLocal: the local operations, on the libraries a refresh has loaded and
\* on an id no library has
NoLibrary == "L0"
LocalDocIds == {"d1", "d2"}

\* the store after a first fetchLibraries against a backend holding two
\* libraries, the first with a document, and a conversation of each
InitTwo ==
    /\ srvLibraries = <<[id |-> LibId(1), name |-> "Physics", tags |-> NoTags,
                          documents |-> <<"d1">>],
                         [id |-> LibId(2), name |-> "Maths", tags |-> NoTags,
                          documents |-> <<>>]>>
    /\ srvConversations = <<[id |-> ConvId(1), library_id |-> LibId(1), title |-> "A",
                              messages |-> <<>>],
                             [id |-> ConvId(2), library_id |-> LibId(2), title |-> "B",
                              messages |-> <<>>]>>
    /\ srvCreated = [lib |-> 2, conv |-> 2]
    /\ libraries = BuildLibraries(ListResponse(srvLibraries), <<<<"d1">>, <<>>>>)
    /\ currentLibrary = RepairSelection(<<>>, libraries)
    /\ conversations = NormalizeAll(srvConversations)
    /\ currentConversation = <<conversations[2]>>
    /\ tasks = [t \in Tasks |-> IdleTask]
    /\ ev = NoEv
    /\ upload = NoUpload
    /\ storage = Written(libraries, currentLibrary, conversations, currentConversation)

NextLocal ==
    \/ \E l \in Range(libraries) : SetCurrentLibrary(<<l>>)
    \/ SetCurrentLibrary(<<>>)
    \/ \E id \in Ids(libraries) \cup {NoLibrary}, d \in LocalDocIds : AddDocument(id, d)
    \/ \E id \in Ids(libraries) \cup {NoLibrary}, d \in LocalDocIds : RemoveDocument(id, d)

SpecLocal == InitTwo /\ [][NextLocal]_vars

\* SpecFair: every asynchronous operation of the store, one at a time, on a
\* loaded store. Every request that is on the wire is eventually answered
\* (the assumption about the network and the backend), and a continuation
\* whose await has settled is eventually run (the event loop runs every job
\* that is queued).
NextFair ==
    \/ Quiet /\ StartInitialize(1)
    \/ Quiet /\ StartFetchLibraries(1)
    \/ Quiet /\ StartFetchAllConversations(1)
    \/ Quiet /\ StartCreateLibrary(1, "Physics", NoTags)
    \/ Quiet /\ \E id \in Ids(libraries) : StartDeleteLibrary(1, id)
    \/ Quiet /\ \E id \in Ids(libraries) : StartCreateConversation(1, id, "A")
    \/ Quiet /\ \E c \in Range(conversations) : StartFetchConversation(1, c.id)
    \/ Quiet /\ \E c \in Range(conversations), m \in MsgIds : StartAddMessage(1, c.id, m)
    \/ Quiet /\ \E c \in Range(conversations) : StartDeleteConversation(1, c.id)
    \/ Quiet /\ \E c \in Range(conversations) : StartUpdateConversationTitle(1, c.id, "B")
    \/ RefreshSteps
    \/ LibrarySteps
    \/ \E t \in Tasks : ServeCreateConversation(t)
    \/ \E t \in Tasks : ResumeCreateConversation(t)
    \/ \E t \in Tasks : ServeGetConversation(t)
    \/ \E t \in Tasks : ResumeGetConversation(t)
    \/ \E t \in Tasks : ServeAppendMessage(t)
    \/ \E t \in Tasks : ResumeAppendMessage(t)
    \/ \E t \in Tasks : ServeDeleteConversation(t)
    \/ \E t \in Tasks : ResumeDeleteConversation(t)
    \/ \E t \in Tasks : ServePatchTitle(t)
    \/ \E t \in Tasks : ResumePatchTitle(t)

Answered ==
    /\ WF_vars(\E t \in Tasks : ServeListLibraries(t))
    /\ WF_vars(\E t \in Tasks : \E k \in 1..MaxLibs : ServeListDocuments(t, k))
    /\ WF_vars(\E t \in Tasks : ServeListConversations(t))
    /\ WF_vars(\E t \in Tasks : ServeCreateLibrary(t))
    /\ WF_vars(\E t \in Tasks : ServeDeleteLibrary(t))
    /\ WF_vars(\E t \in Tasks : ServeCreateConversation(t))
    /\ WF_vars(\E t \in Tasks : ServeGetConversation(t))
    /\ WF_vars(\E t \in Tasks : ServeAppendMessage(t))
    /\ WF_vars(\E t \in Tasks : ServeDeleteConversation(t))
    /\ WF_vars(\E t \in Tasks : ServePatchTitle(t))

Resumed ==
    /\ WF_vars(\E t \in Tasks : ResumeListLibraries(t))
    /\ WF_vars(\E t \in Tasks : ResumeListDocuments(t))
    /\ WF_vars(\E t \in Tasks : ResumeListConversations(t))
    /\ WF_vars(\E t \in Tasks : ResumeCreateLibrary(t))
    /\ WF_vars(\E t \in Tasks : ResumeDeleteLibrary(t))
    /\ WF_vars(\E t \in Tasks : ResumeCreateConversation(t))
    /\ WF_vars(\E t \in Tasks : ResumeGetConversation(t))
    /\ WF_vars(\E t \in Tasks : ResumeAppendMessage(t))
    /\ WF_vars(\E t \in Tasks : ResumeDeleteConversation(t))
    /\ WF_vars(\E t \in Tasks : ResumePatchTitle(t))

SpecFair == InitLoaded /\ [][NextFair]_vars /\ Answered /\ Resumed

\* SpecGone: the one conversation of a loaded store is fetched, listed and
\* deleted, the operations overlapping; nothing creates a conversation
NextGone ==
    \/ \E t \in Tasks : \E c \in Known : StartFetchConversation(t, c.id)
    \/ \E t \in Tasks : \E c \in Range(conversations) : StartDeleteConversation(t, c.id)
    \/ \E t \in Tasks : StartFetchAllConversations(t)
    \/ \E t \in Tasks : ServeGetConversation(t)
    \/ \E t \in Tasks : ResumeGetConversation(t)
    \/ \E t \in Tasks : ServeDeleteConversation(t)
    \/ \E t \in Tasks : ResumeDeleteConversation(t)
    \/ \E t \in Tasks : ServeListConversations(t)
    \/ \E t \in Tasks : ResumeListConversations(t)

SpecGone == InitLoaded /\ [][NextGone]_vars

\* SpecRemove: libraries and conversations deleted, and the library list
\* refreshed, one operation after the other
NextRemove ==
    \/ Quiet /\ StartFetchLibraries(1)
    \/ Quiet /\ \E id \in Ids(libraries) : StartDeleteLibrary(1, id)
    \/ Quiet /\ \E c \in Range(conversations) : StartDeleteConversation(1, c.id)
    \/ RefreshSteps
    \/ \E t \in Tasks : ServeDeleteLibrary(t)
    \/ \E t \in Tasks : ResumeDeleteLibrary(t)
    \/ \E t \in Tasks : ServeDeleteConversation(t)
    \/ \E t \in Tasks : ResumeDeleteConversation(t)

SpecRemove == InitFull /\ [][NextRemove]_vars

\* SpecAuth: the operations of SpecLib against a backend every call reaches
\* and that answers every call with success
AllAnswered == \A u \in Tasks : tasks[u].ok

NextAuth ==
    \/ \E t \in Tasks : StartFetchLibraries(t)
    \/ \E t \in Tasks : StartCreateLibrary(t, "Physics", NoTags)
    \/ \E t \in Tasks : \E id \in Ids(libraries) : StartDeleteLibrary(t, id)
    \/ \E t \in Tasks : ServeListLibraries(t) /\ AllAnswered'
    \/ \E t \in Tasks : ResumeListLibraries(t)
    \/ \E t \in Tasks : \E k \in 1..MaxLibs : ServeListDocuments(t, k) /\ AllAnswered'
    \/ \E t \in Tasks : ResumeListDocuments(t)
    \/ \E t \in Tasks : ServeListConversations(t) /\ AllAnswered'
    \/ \E t \in Tasks : ResumeListConversations(t)
    \/ \E t \in Tasks : ServeCreateLibrary(t) /\ AllAnswered'
    \/ \E t \in Tasks : ResumeCreateLibrary(t)
    \/ \E t \in Tasks : ServeDeleteLibrary(t) /\ AllAnswered'
    \/ \E t \in Tasks : ResumeDeleteLibrary(t)
    \/ \E l \in Range(libraries) : SetCurrentLibrary(<<l>>)

SpecAuth == Init /\ [][NextAuth]_vars

\* SpecAuthLoaded: the same operations and answers, the backend holding a
\* library and a conversation of it from the start
SpecAuthLoaded == InitSel /\ [][NextAuth]_vars

\* ---------------------------------------------------------------- claims
FirstOrNull(libs) == IF libs = <<>> THEN <<>> ELSE <<libs[1]>>

\* C2: the step in which fetchLibraries commits keeps the selected id when it
\* is in the new list, selects the first library of the new list (null when
\* the list is empty) otherwise, and so leaves currentLibrary null or in the list
C2_CommitRepairsSelection ==
    [][("librariesSet" \in ev'.step) =>
        /\ IF currentLibrary # <<>> /\ currentLibrary[1].id \in Ids(libraries')
           THEN currentLibrary' # <<>> /\ currentLibrary'[1].id = currentLibrary[1].id
           ELSE currentLibrary' = FirstOrNull(libraries')
        /\ currentLibrary' = <<>> \/ currentLibrary'[1].id \in Ids(libraries')]_vars

\* a commit that dropped the selected library while another one remained
C2_Witness ==
    /\ "librariesSet" \in ev.step
    /\ ev.was.currentLibrary # <<>>
    /\ ev.was.currentLibrary[1].id \notin Ids(libraries)
    /\ currentLibrary # <<>>
    /\ currentLibrary[1].id = libraries[1].id

C5_TotalReplacement ==
    ("librariesSet" \in ev.step) =>
        /\ IdSeq(libraries) = IdSeq(ev.resp.libs)
        /\ \A k \in DOMAIN libraries : libraries[k].documents = ev.resp.docs[k]

\* a commit that dropped a library the response no longer has and, from a
\* library it kept, a document that had only been added locally
C5_Witness ==
    /\ "librariesSet" \in ev.step
    /\ \E k \in DOMAIN ev.was.libraries : ev.was.libraries[k].id \notin Ids(libraries)
    /\ \E k \in DOMAIN ev.was.libraries, j \in DOMAIN libraries :
          /\ ev.was.libraries[k].id = libraries[j].id
          /\ ev.was.libraries[k].documents # <<>>
          /\ libraries[j].documents = <<>>

\* C8 as claimed: no fetchLibraries fails on a document-list call
C8_DocumentFailureNotFatal ==
    ~("failed" \in ev.step /\ ev.call = "listDocuments")

\* C1: currentLibrary is null or has the id of a library of the libraries list
C1_CurrentLibraryListed ==
    currentLibrary = <<>> \/ currentLibrary[1].id \in Ids(libraries)

\* a refresh dropped the selected library while a conversation was selected
\* and moved the selection to a library of the new list
C1_Witness ==
    /\ "librariesSet" \in ev.step
    /\ ev.was.currentLibrary # <<>>
    /\ ev.was.currentLibrary[1].id \notin Ids(libraries)
    /\ currentConversation # <<>>
    /\ currentLibrary # <<>>

\* C3 as claimed: after a full conversation replacement the current
\* conversation is null or listed in the new conversations list
C3_ReplacementClearsStaleCurrent ==
    ("conversationsSet" \in ev.step) =>
        currentConversation = <<>> \/ currentConversation[1].id \in Ids(conversations)

RECURSIVE ConcatOk(_)
\* the answers of the libraries whose call succeeded, one after the other
ConcatOk(log) ==
    IF log = <<>> THEN <<>>
    ELSE (IF Head(log).ok THEN NormalizeAll(Head(log).convs) ELSE <<>>) \o ConcatOk(Tail(log))

DefiningCall(op) ==
    CASE op = "createLibrary" -> "createLibrary"
      [] op = "createConversation" -> "createConversation"
      [] op = "addMessage" -> "appendMessage"
      [] op = "updateConversationTitle" -> "patchTitle"
      [] op = "fetchConversation" -> "getConversation"
      [] OTHER -> "none"

\* C7: once the defining call of createLibrary, createConversation, addMessage,
\* updateConversationTitle or fetchConversation is answered with non-success,
\* the operation's next step is its failure: the operation ends there, with no
\* further request and with the store as it was
C7_FailsLoudly ==
    [][\A t \in Tasks :
        (Served(t, DefiningCall(tasks[t].op)) /\ ~tasks[t].ok) =>
            \/ tasks'[t] = tasks[t]
            \/ \E u \in Tasks : u < t /\ tasks' = Release(u)
            \/ /\ ev'.step = {"failed"}
               /\ ev'.op = tasks[t].op /\ ev'.call = tasks[t].pc
               /\ tasks' = Release(t)
               /\ UNCHANGED <<store, backend, storage, upload>>]_vars

\* addMessage failed on its append call while a conversation was current
C7_Witness ==
    /\ ev.step = {"failed"}
    /\ ev.op = "addMessage" /\ ev.call = "appendMessage"
    /\ conversations # <<>> /\ currentConversation # <<>>
    /\ Quiet

\* C9 as claimed: whenever a conversation is current, the current library is
\* its owning library
C9_CurrentConversationInCurrentLibrary ==
    currentConversation # <<>> =>
        currentLibrary # <<>> /\ currentLibrary[1].id = currentConversation[1].libraryId

\* C10: setCurrentConversation(c) makes c current; it selects the library of
\* the list with id c.libraryId when c is not null and there is one, leaves
\* currentLibrary alone otherwise, and never touches the two lists
C10_SetCurrentConversation ==
    [][(ev'.op = "setCurrentConversation") =>
        /\ currentConversation' = ev'.arg
        /\ IF ev'.arg # <<>> /\ ev'.arg[1].libraryId \in Ids(libraries)
           THEN /\ currentLibrary' # <<>>
                /\ currentLibrary'[1] \in Range(libraries)
                /\ currentLibrary'[1].id = ev'.arg[1].libraryId
           ELSE currentLibrary' = currentLibrary
        /\ UNCHANGED <<libraries, conversations>>]_vars

\* selecting a conversation moved the selection from another library to the
\* conversation's library
C10_Witness ==
    /\ ev.op = "setCurrentConversation"
    /\ ev.arg # <<>> /\ currentConversation = ev.arg
    /\ ev.was.currentLibrary # <<>>
    /\ currentLibrary # <<>>
    /\ ev.was.currentLibrary[1].id # currentLibrary[1].id
    /\ currentLibrary[1].id = ev.arg[1].libraryId

\* C11: a successful fetchConversation(id) keeps the length and the order of
\* the ids of conversations, changes no entry but the one with that id, which
\* takes the fetched fields, and makes the fetched conversation current and
\* the value returned
C11_FetchConversationPatches ==
    [][("conversationSet" \in ev'.step) =>
        /\ ev'.ret # <<>> /\ ev'.ret[1].id = ev'.id
        /\ currentConversation' = ev'.ret
        /\ IdSeq(conversations') = IdSeq(conversations)
        /\ \A k \in DOMAIN conversations :
              conversations'[k] = IF conversations[k].id = ev'.id
                                  THEN ev'.ret[1] ELSE conversations[k]]_vars

\* the fetchConversation that addMessage runs patched the second of two listed
\* conversations, which now holds the message, and left the first one alone
C11_Witness ==
    /\ "conversationSet" \in ev.step /\ ev.op = "addMessage"
    /\ Len(conversations) = 2
    /\ conversations[2] = ev.ret[1] /\ conversations[1].id # ev.id
    /\ currentConversation = ev.ret
    /\ conversations[2].messages # <<>>

\* C12: addMessage issues the append call first and the re-fetch only once the
\* append has succeeded, so that the backend holds the message by then; when
\* the re-fetch succeeds too, the fetched conversation holds the message, is
\* the entry with that id in conversations and is currentConversation
C12_AddMessageThenRefetch ==
    /\ \A t \in Tasks : tasks[t].op = "addMessage" =>
          /\ tasks[t].pc \in {"appendMessage", "getConversation"}
          /\ tasks[t].pc = "getConversation" =>
                \E c \in Range(srvConversations) :
                    c.id = tasks[t].id /\ tasks[t].msg \in Range(c.messages)
    /\ ("conversationSet" \in ev.step /\ ev.op = "addMessage") =>
          /\ currentConversation = ev.ret
          /\ currentConversation[1].id = ev.id
          /\ ev.msg \in Range(currentConversation[1].messages)
          /\ \A k \in DOMAIN conversations :
                conversations[k].id = ev.id => conversations[k] = currentConversation[1]

\* addMessage completed on a listed conversation
C12_Witness ==
    /\ "conversationSet" \in ev.step /\ ev.op = "addMessage"
    /\ ev.id \in Ids(conversations)
    /\ currentConversation # <<>>
    /\ ev.msg \in Range(currentConversation[1].messages)
    /\ \E k \in DOMAIN conversations :
          conversations[k].id = ev.id /\ ev.msg \in Range(conversations[k].messages)

IsPrefix(a, b) == Len(a) <= Len(b) /\ SubSeq(b, 1, Len(a)) = a

\* C13 as claimed: no step of the store replaces the messages of a
\* conversation, in conversations or as currentConversation, by a sequence
\* that does not start with the messages it held
C13_MessagesAppendOnly ==
    [][/\ \A j \in DOMAIN conversations, k \in DOMAIN conversations' :
            conversations[j].id = conversations'[k].id =>
                IsPrefix(conversations[j].messages, conversations'[k].messages)
       /\ (/\ currentConversation # <<>> /\ currentConversation' # <<>>
           /\ currentConversation[1].id = currentConversation'[1].id) =>
                IsPrefix(currentConversation[1].messages,
                         currentConversation'[1].messages)]_vars

\* C14: deleteConversation(id) starts by taking the conversation out of
\* conversations and clearing currentConversation if it has that id (leaving
\* it alone otherwise), with the remote delete issued but not yet served;
\* once the delete is answered, whatever the answer, the operation goes on to
\* the conversation refresh, and it ends with the refreshed list replacing
\* conversations
C14_DeleteConversationOrder ==
    [][/\ ("optimisticSet" \in ev'.step) =>
            /\ conversations' = Filter(conversations,
                                  {c \in Range(conversations) : c.id # ev'.id})
            /\ currentConversation' =
                  IF currentConversation # <<>> /\ currentConversation[1].id = ev'.id
                  THEN <<>> ELSE currentConversation
            /\ UNCHANGED backend
            /\ \A t \in Tasks : tasks[t].op # "deleteConversation"
            /\ \E t \in Tasks : /\ tasks'[t].op = "deleteConversation"
                                 /\ tasks'[t].pc = "deleteConversation"
                                 /\ ~tasks'[t].srv
       /\ \A t \in Tasks :
            (tasks[t].op = "deleteConversation" /\ tasks'[t] # tasks[t]) =>
                \/ Awaiting(t, "deleteConversation") /\ tasks'[t].srv
                                                     /\ UNCHANGED store
                \/ Served(t, "deleteConversation") /\ tasks'[t].pc = "listConversations"
                                                   /\ UNCHANGED store
                \/ tasks[t].pc = "listConversations" /\ tasks'[t].pc = "listConversations"
                                                     /\ UNCHANGED store
                \/ /\ Served(t, "listConversations")
                   /\ ev'.op = "deleteConversation"
                   /\ ev'.step = {"conversationsSet", "done"}
                   /\ conversations' = ConcatOk(ev'.log)]_vars

\* a deletion just removed the second listed conversation while the first one
\* was current and stayed so
C14_Witness ==
    /\ "optimisticSet" \in ev.step
    /\ Len(conversations) = 1 /\ conversations[1].id # ev.id
    /\ currentConversation = <<conversations[1]>>
    /\ ev.id \in Ids(srvConversations)

\* C15 as claimed: when a fetchAllConversations completes, conversations holds,
\* for every conversation that a createConversation(libId, t) created before,
\* a conversation with libraryId = libId and title = t
C15_CreatedThenListed ==
    ("conversationsSet" \in ev.step /\ ev.op = "fetchAllConversations") =>
        \A c \in Range(srvConversations) :
            \E l \in Range(conversations) :
                l.libraryId = c.library_id /\ l.title = c.title

\* C15 amended: ... provided the conversation-list call that this
\* fetchAllConversations made for libId was answered with success
C15_CreatedThenListedIfAnswered ==
    ("conversationsSet" \in ev.step /\ ev.op = "fetchAllConversations") =>
        \A c \in Range(srvConversations) :
            (\E k \in DOMAIN ev.log : ev.log[k].lib = c.library_id /\ ev.log[k].ok) =>
                \E l \in Range(conversations) :
                    l.libraryId = c.library_id /\ l.title = c.title

\* a refresh over two libraries completed after a conversation was created in
\* each: the call of the first library failed, the one of the second library
\* succeeded and its conversation is listed
C15_Witness ==
    /\ "conversationsSet" \in ev.step /\ ev.op = "fetchAllConversations"
    /\ Len(ev.log) = 2 /\ ~ev.log[1].ok /\ ev.log[2].ok
    /\ \E c \in Range(srvConversations) : c.library_id = ev.log[1].lib
    /\ \E c \in Range(srvConversations), l \in Range(conversations) :
          /\ c.library_id = ev.log[2].lib
          /\ l.libraryId = c.library_id /\ l.title = c.title /\ l.id = c.id

\* C16 as claimed, in the case most favourable to it (the create call and the
\* list call of its library both succeeded): the conversation that
\* createConversation returns is the one its own create call created
C16_ReturnsCreated ==
    (/\ "done" \in ev.step /\ ev.op = "createConversation"
     /\ \E k \in DOMAIN ev.log : ev.log[k].lib = ev.id /\ ev.log[k].ok) =>
        ev.ret # <<>> /\ ev.ret[1].id = ev.made

Commas(s) == {i \in DOMAIN s : s[i] = ","}

\* the comma-separated parts of a string, each without the blanks around it;
\* the empty string has no part
TrimmedParts(s) ==
    LET n == Cardinality(Commas(s)) + 1
        cut(k) == IF k = 0 THEN 0
                  ELSE IF k = n THEN Len(s) + 1
                  ELSE CHOOSE i \in Commas(s) :
                           Cardinality({j \in Commas(s) : j < i}) = k - 1
        solid(k) == {i \in (cut(k - 1) + 1)..(cut(k) - 1) : s[i] # " "}
        first(k) == CHOOSE i \in solid(k) : \A j \in solid(k) : i <= j
        last(k) == CHOOSE i \in solid(k) : \A j \in solid(k) : i >= j
    IN IF s = <<>> THEN <<>>
       ELSE [k \in 1..n |-> IF solid(k) = {} THEN <<>>
                             ELSE SubSeq(s, first(k), last(k))]

\* C17: when the first createLibrary(name, description, tags) that succeeds
\* against a backend and a client without libraries completes, libraries
\* holds exactly one library, with that name and with the trimmed
\* comma-separated parts of the tags string as its tags, in order
C17_FirstLibraryCreated ==
    ("done" \in ev.step /\ ev.op = "createLibrary" /\ srvCreated.lib = 1) =>
        /\ Len(libraries) = 1
        /\ libraries[1].name = ev.name
        /\ libraries[1].tags = TrimmedParts(ev.tags)

\* the first library was created with the tags string " a ,b " and is listed
\* with the tags "a" and "b"
C17_Witness ==
    /\ "done" \in ev.step /\ ev.op = "createLibrary" /\ srvCreated.lib = 1
    /\ ev.name = "Maths" /\ ev.tags = <<" ", "a", " ", ",", "b", " ">>
    /\ Len(libraries) = 1
    /\ libraries[1].name = "Maths"
    /\ libraries[1].tags = << <<"a">>, <<"b">> >>

NoDuplicateIds(s) == Cardinality(Ids(s)) = Len(s)

\* what one initialize leaves when all its calls succeed: the backend's
\* libraries with their documents, and their conversations library by library
OnceLibraries ==
    BuildLibraries(ListResponse(srvLibraries),
                   [k \in DOMAIN srvLibraries |-> srvLibraries[k].documents])
OnceConversations ==
    ConcatOk([k \in DOMAIN srvLibraries |->
                 [lib |-> srvLibraries[k].id, ok |-> TRUE,
                  convs |-> Filter(srvConversations,
                              {c \in Range(srvConversations) :
                                   c.library_id = srvLibraries[k].id})]])

\* C18: against an unchanged backend, however many initialize calls ran or
\* are running, no id is listed twice, the libraries and the selected id are
\* those one call leaves, and each call that completes leaves the
\* conversations one call leaves: all of them when its list calls succeeded,
\* those of the libraries whose call succeeded otherwise
C18_InitializeIdempotent ==
    /\ NoDuplicateIds(libraries) /\ NoDuplicateIds(conversations)
    /\ libraries \in {<<>>, OnceLibraries}
    /\ currentLibrary \in {<<>>, <<OnceLibraries[1]>>}
    /\ ("done" \in ev.step /\ ev.op = "initialize") =>
          /\ libraries = OnceLibraries
          /\ currentLibrary = <<OnceLibraries[1]>>
          /\ [k \in DOMAIN ev.log |-> ev.log[k].lib] = IdSeq(OnceLibraries)
          /\ conversations = ConcatOk(ev.log)
          /\ (\A k \in DOMAIN ev.log : ev.log[k].ok) => conversations = OnceConversations

\* an initialize completed with all its calls answered while another one was
\* under way and the store was loaded already
C18_Witness ==
    /\ "done" \in ev.step /\ ev.op = "initialize"
    /\ \A k \in DOMAIN ev.log : ev.log[k].ok
    /\ \E t \in Tasks : tasks[t].op = "initialize" /\ tasks[t].phase = 2
    /\ libraries = OnceLibraries /\ conversations = OnceConversations
    /\ Len(conversations) = 2

\* C19 as claimed: removeDocument(libId, d.id) right after addDocument(libId, d)
\* leaves libId with the set of document ids it had before the addDocument
C19_AddThenRemoveRestores ==
    [][(/\ ev.op = "addDocument" /\ ev'.op = "removeDocument"
        /\ ev'.id = ev.id /\ ev'.arg = ev.arg) =>
        \A k \in DOMAIN libraries' :
            libraries'[k].id = ev.id =>
                Range(libraries'[k].documents) = Range(ev.was.libraries[k].documents)]_vars

\* the 8-4-4-4-12 pattern, position by position
HasUuidShape(id) ==
    /\ Len(id) = 36
    /\ \A i \in 1..36 : IF i \in {9, 14, 19, 24} THEN id[i] = "-" ELSE id[i] \in Hex

\* C20 as claimed: once the stored snapshot is loaded, every conversation of
\* the store has an id of the UUID pattern, the conversations are the stored
\* ones with such an id, in their order, and the libraries are the stored ones
C20_LoadedSnapshotFiltered ==
    ("rehydrated" \in ev.step) =>
        /\ \A c \in Range(conversations) : HasUuidShape(c.id)
        /\ conversations =
              Filter(ev.arg[1].state.conversations,
                     {c \in Range(ev.arg[1].state.conversations) : HasUuidShape(c.id)})
        /\ libraries = ev.arg[1].state.libraries

C22_LastCommitWins ==
    [][/\ ("librariesSet" \in ev'.step) =>
             libraries' = BuildLibraries(ev'.resp.libs, ev'.resp.docs)
       /\ (libraries' # libraries) => "librariesSet" \in ev'.step]_vars

\* fetchLibraries was issued before createLibrary (it holds the lower slot) and
\* was answered before the library was created; the refresh of createLibrary
\* has committed the newer list already, and now the older call commits its
\* list over it: the list in the store is not the backend's
C22_Witness ==
    /\ "librariesSet" \in ev.step
    /\ ev.op = "fetchLibraries"
    /\ tasks[1].op = "fetchLibraries" /\ tasks[1].pc = "listConversations"
    /\ tasks[1].snap = IdSeq(libraries)
    /\ tasks[2].op = "createLibrary" /\ tasks[2].pc = "listConversations"
    /\ tasks[2].snap = IdSeq(ev.was.libraries)
    /\ tasks[2].snap = IdSeq(srvLibraries)
    /\ tasks[2].snap # tasks[1].snap

\* the conversations the backend holds for the libraries of a list, as the
\* store would hold them
BackendConversations(libs) ==
    {NormalizeConversation(c) :
        c \in {d \in Range(srvConversations) : d.library_id \in Ids(libs)}}

\* C23 as claimed: with no operation in flight and every call so far answered
\* with success (SpecAuth has no other answers), the local library ids are the
\* backend's and the local conversations are the backend's conversations of
\* those libraries
C23_RemoteAuthoritative ==
    Quiet =>
        /\ Ids(libraries) = Ids(srvLibraries)
        /\ Range(conversations) = BackendConversations(libraries)

\* the libraries and the conversations as the backend's responses deliver
\* them and the store holds them
Delivered ==
    [libraries |->
        Range(BuildLibraries(ListResponse(srvLibraries),
                             [k \in DOMAIN srvLibraries |-> srvLibraries[k].documents])),
     conversations |-> Range(NormalizeAll(srvConversations))]

Creating(tk) == tk.op \in {"createLibrary", "createConversation"}

\* C24: while createLibrary or createConversation is under way, libraries
\* changes only in the step in which its refresh commits the library list and
\* conversations only in the step in which its refresh commits the
\* conversation list; and every library and every conversation the store
\* holds is one the backend's responses deliver.
C24_NoOptimisticInsert ==
    [][/\ (Creating(tasks[1]) \/ Creating(tasks'[1])) =>
             /\ (libraries' # libraries) => "librariesSet" \in ev'.step
             /\ (conversations' # conversations) => "conversationsSet" \in ev'.step
       /\ Range(libraries') \subseteq Delivered'.libraries
       /\ Range(conversations') \subseteq Delivered'.conversations]_vars

\* the create call of createConversation has been answered with success: the
\* backend holds the new conversation and the store's list has not got it yet
C24_Witness ==
    /\ tasks[1].op = "createConversation" /\ tasks[1].pc = "createConversation"
    /\ tasks[1].srv /\ tasks[1].ok
    /\ \E c \in Range(srvConversations) : c.id \notin Ids(conversations)
    /\ conversations # <<>>

\* the libraries a completed refresh has queried, in the order of its calls
Queried(log) == [k \in DOMAIN log |-> log[k].lib]

\* C25: the step in which a fetchLibraries call commits sets the library list
\* and the repaired selection together, the call has issued no
\* conversation-list call before, and in that same step it starts the
\* conversation refresh over the ids of the list just committed (with no
\* library the refresh sets the empty list at once); the refresh of such a call
\* replaces conversations after having queried exactly those ids, in order.
C25_CommitThenRefresh ==
    [][/\ ("librariesSet" \in ev'.step) =>
             /\ currentLibrary' = RepairSelection(ev'.was.currentLibrary, libraries')
             /\ \E t \in Tasks :
                   /\ tasks[t].op = ev'.op
                   /\ tasks[t].pc \in {"listLibraries", "listDocuments"}
                   /\ tasks[t].snap = <<>>
                   /\ IF libraries' = <<>>
                      THEN "conversationsSet" \in ev'.step /\ conversations' = <<>>
                      ELSE /\ "conversationsSet" \notin ev'.step
                           /\ conversations' = conversations
                           /\ tasks'[t].op = ev'.op
                           /\ Awaiting(t, "listConversations")'
                           /\ tasks'[t].i = 1
                           /\ tasks'[t].snap = IdSeq(libraries')
       /\ ("conversationsSet" \in ev'.step /\ "librariesSet" \notin ev'.step) =>
             \E t \in Tasks :
                 /\ tasks[t].op = ev'.op
                 /\ Served(t, "listConversations")
                 /\ Queried(ev'.log) = tasks[t].snap
       /\ \A u \in Tasks :
             tasks'[u].snap \in
                 {<<>>} \cup {tasks[t].snap : t \in Tasks}
                        \cup (IF "librariesSet" \in ev'.step
                              THEN {IdSeq(libraries')} ELSE {})]_vars

\* a call committed a list of two libraries over a list of one and is now
\* waiting for the conversations of the first of the two
C25_Witness ==
    /\ "librariesSet" \in ev.step
    /\ Len(libraries) = 2
    /\ Len(ev.was.libraries) = 1
    /\ \E t \in Tasks :
          /\ tasks[t].op = ev.op
          /\ Awaiting(t, "listConversations")
          /\ tasks[t].i = 1
          /\ tasks[t].snap = IdSeq(libraries)

\* C26: while updateConversationTitle is under way nothing of the store
\* changes except conversations in the step in which its refresh commits; and
\* when it completes, the entry of conversations with the id carries the new
\* title, provided the refresh's list call for the library that owns the
\* conversation on the backend was answered with success.
C26_TitleByRefreshOnly ==
    [][/\ (tasks[1].op = "updateConversationTitle"
            \/ tasks'[1].op = "updateConversationTitle") =>
             /\ libraries' = libraries
             /\ currentLibrary' = currentLibrary
             /\ currentConversation' = currentConversation
             /\ (conversations' # conversations) => "conversationsSet" \in ev'.step
       /\ ("done" \in ev'.step /\ ev'.op = "updateConversationTitle") =>
             \A c \in Range(srvConversations') :
                 (/\ c.id = ev'.id
                  /\ \E k \in DOMAIN ev'.log :
                        ev'.log[k].lib = c.library_id /\ ev'.log[k].ok) =>
                     \E l \in Range(conversations') :
                         l.id = ev'.id /\ l.title = ev'.title]_vars

\* updateConversationTitle has completed and the entry of the list carries
\* the new title; the current conversation, fetched before, is the same
\* conversation under its old title
C26_Witness ==
    /\ "done" \in ev.step /\ ev.op = "updateConversationTitle"
    /\ \E l \in Range(conversations) : l.id = ev.id /\ l.title = ev.title
    /\ currentConversation # <<>>
    /\ currentConversation[1].id = ev.id
    /\ currentConversation[1].title # ev.title

\* C27: deleteLibrary and deleteConversation never fail on their delete call;
\* after a non-success answer of the delete the next step of the operation is
\* the first call of its refresh (the library list for deleteLibrary, the
\* conversation lists of the present libraries for deleteConversation), and
\* the lists the operation then commits are the ones built from the answers
\* of that refresh.
C27_DeleteOutcomeIgnored ==
    [][/\ ~("failed" \in ev'.step /\ ev'.call \in {"deleteLibrary", "deleteConversation"})
       /\ (Served(1, "deleteLibrary") /\ ~tasks[1].ok /\ tasks' # tasks) =>
             /\ tasks'[1].op = "deleteLibrary"
             /\ Awaiting(1, "listLibraries")'
             /\ store' = store
       /\ (Served(1, "deleteConversation") /\ ~tasks[1].ok /\ tasks' # tasks) =>
             IF libraries = <<>>
             THEN conversations' = <<>> /\ "done" \in ev'.step
             ELSE /\ tasks'[1].op = "deleteConversation"
                  /\ Awaiting(1, "listConversations")'
                  /\ tasks'[1].snap = IdSeq(libraries)
                  /\ store' = store
       /\ (~ev'.del /\ ev'.op = "deleteLibrary" /\ "librariesSet" \in ev'.step) =>
             libraries' = BuildLibraries(ev'.resp.libs, ev'.resp.docs)
       /\ (/\ ~ev'.del /\ ev'.op \in {"deleteLibrary", "deleteConversation"}
           /\ "conversationsSet" \in ev'.step /\ "librariesSet" \notin ev'.step) =>
             /\ "done" \in ev'.step
             /\ conversations' = ConcatOk(ev'.log)]_vars

\* deleteConversation has completed after a delete call that was answered
\* with non-success: the conversation, removed from the list at the start, is
\* back in it as the backend still returns it
C27_Witness ==
    /\ "done" \in ev.step /\ ev.op = "deleteConversation"
    /\ ~ev.del
    /\ ev.id \in Ids(conversations)
    /\ ev.id \in Ids(srvConversations)

RECURSIVE Without(_, _)
\* a list without the entries equal to x
Without(s, x) ==
    IF s = <<>> THEN <<>>
    ELSE IF Head(s) = x THEN Without(Tail(s), x) ELSE <<Head(s)>> \o Without(Tail(s), x)

\* C28: setCurrentLibrary, addDocument and removeDocument are one step each,
\* leave the operations in flight and the backend as they are (no call is
\* issued) and change this only: setCurrentLibrary sets currentLibrary to its
\* argument; addDocument appends the document to, and removeDocument removes
\* every document with the id from, the documents of the libraries of the list
\* with the given id, every other library staying as it is (so nothing changes
\* when no library has the id).
C28_LocalFrame ==
    [][/\ ev'.op \in {"setCurrentLibrary", "addDocument", "removeDocument"} =>
             /\ ev'.step = {"call", "done"}
             /\ tasks' = tasks
             /\ backend' = backend
             /\ conversations' = conversations
             /\ currentConversation' = currentConversation
       /\ ev'.op = "setCurrentLibrary" =>
             currentLibrary' = ev'.arg /\ libraries' = libraries
       /\ ev'.op \in {"addDocument", "removeDocument"} =>
             /\ currentLibrary' = currentLibrary
             /\ DOMAIN libraries' = DOMAIN libraries
             /\ \A k \in DOMAIN libraries :
                   IF libraries[k].id = ev'.id
                   THEN libraries'[k] =
                          [libraries[k] EXCEPT !.documents =
                              IF ev'.op = "addDocument"
                              THEN @ \o ev'.arg
                              ELSE Without(@, ev'.arg[1])]
                   ELSE libraries'[k] = libraries[k]
             /\ (ev'.id \notin Ids(libraries)) => store' = store]_vars

\* addDocument has appended d2 to the documents of the first of two
\* libraries, which held d1; the second library holds a document too
C28_Witness ==
    /\ ev.op = "addDocument"
    /\ Len(libraries) = 2
    /\ ev.id = libraries[1].id
    /\ ev.was.libraries[1].documents = <<"d1">>
    /\ libraries[1].documents = <<"d1", "d2">>
    /\ libraries[2].documents # <<>>

\* the positions of the list whose conversation has the library and the title
Matches(convs, libraryId, title) ==
    {k \in DOMAIN convs : convs[k].libraryId = libraryId /\ convs[k].title = title}

Outstanding(tk) ==
    /\ tk.op \notin {"idle", "rehydrate"}
    /\ IF tk.pc = "listDocuments" THEN tk.pend # {} ELSE ~tk.srv

\* the place of a request in the code of its operation: the pass of
\* initialize, the call, and the library of the loop
PcRank(pc) ==
    IF pc = "listLibraries" THEN 1
    ELSE IF pc = "listDocuments" THEN 2
    ELSE IF pc = "getConversation" THEN 1
    ELSE IF pc = "listConversations" THEN 3
    ELSE 0

Before(a, b) ==
    \/ a.phase < b.phase
    \/ a.phase = b.phase /\ PcRank(a.pc) < PcRank(b.pc)
    \/ a.phase = b.phase /\ a.pc = b.pc /\ a.i < b.i

\* C30 as claimed, second part: an operation does not end, by returning or by
\* failing, while a request of it is still unanswered
C30_HungCallHangs ==
    [][Outstanding(tasks[1]) => tasks'[1].op # "idle"]_vars

\* C30, first part: an operation never goes back to a request; each step of
\* it answers the request it waits for or goes on to a later one
C30_IssuedOnce ==
    [][(tasks[1].op # "idle" /\ tasks'[1].op # "idle" /\ tasks'[1] # tasks[1]) =>
          \/ /\ tasks'[1].pc = tasks[1].pc /\ tasks'[1].i = tasks[1].i
             /\ tasks'[1].phase = tasks[1].phase
             /\ Outstanding(tasks[1])
             /\ tasks'[1].srv \/ tasks'[1].pend \subseteq tasks[1].pend
             /\ tasks'[1].pend # tasks[1].pend \/ tasks'[1].srv # tasks[1].srv
          \/ Before(tasks[1], tasks'[1])]_vars

\* C30, second part but for the document requests that fetchLibraries sends
\* together: an operation ends with a request unanswered only when it is
\* fetchLibraries failing on the non-success answer of another document request
C30_HangsButForDocuments ==
    [][(Outstanding(tasks[1]) /\ tasks'[1].op = "idle") =>
          /\ tasks[1].pc = "listDocuments" /\ ~tasks[1].ok
          /\ "failed" \in ev'.step]_vars

\* C30, third part: with every request answered and every continuation run,
\* an operation in flight eventually ends
C30_EventuallyCompletes == ~Quiet ~> Quiet

\* C31 as claimed: in the state in which a fetchConversation has set the
\* conversation it fetched, conversations holds an entry with the id, so that
\* the current conversation is listed
C31_FetchedIsListed ==
    ("conversationSet" \in ev.step) =>
        /\ ev.id \in Ids(conversations)
        /\ currentConversation # <<>>
        /\ currentConversation[1].id \in Ids(conversations)

\* C32 as claimed: the current library and the library of the list with its
\* id hold the same documents
C32_CurrentLibraryInSync ==
    currentLibrary # <<>> =>
        \A k \in DOMAIN libraries :
            libraries[k].id = currentLibrary[1].id =>
                libraries[k].documents = currentLibrary[1].documents

\* C33 as claimed: when updateConversationTitle has completed and the current
\* conversation is the one renamed, the current conversation carries the new
\* title
C33_CurrentTitleFollows ==
    (/\ "done" \in ev.step /\ ev.op = "updateConversationTitle"
     /\ currentConversation # <<>>
     /\ currentConversation[1].id = ev.id) =>
        currentConversation[1].title = ev.title

\* C34 as claimed: a createConversation that completes returns a conversation
\* with the library and the title of the call
C34_ResultDefined ==
    ("done" \in ev.step /\ ev.op = "createConversation") =>
        /\ ev.ret # <<>>
        /\ ev.ret[1].libraryId = ev.id
        /\ ev.ret[1].title = ev.title

\* C35 as claimed: with no operation in flight, every conversation of the
\* list belongs to a library of the libraries list
C35_NoOrphanConversation ==
    Quiet => \A c \in Range(conversations) : c.libraryId \in Ids(libraries)

\* C36 as claimed: once the backend has deleted the conversation (in SpecGone
\* only a deleteConversation with a successful delete call does that) and
\* every operation has completed, the conversation is neither in the list nor
\* the current one
C36_DeletedStaysGone ==
    (Quiet /\ ConvId(1) \notin Ids(srvConversations)) =>
        /\ ConvId(1) \notin Ids(conversations)
        /\ currentConversation = <<>> \/ currentConversation[1].id # ConvId(1)

\* C37 as claimed: when addMessage fails, the backend does not hold the
\* message in the conversation (in SpecConv operations run one at a time and
\* no message is sent to a conversation that holds one already, so a message
\* the conversation holds is the one of this call)
C37_FailedMeansNotStored ==
    ("failed" \in ev.step /\ ev.op = "addMessage") =>
        \A c \in Range(srvConversations) :
            c.id = ev.id => ev.msg \notin Range(c.messages)

\* ------------------------------------- ChatInterface: the auto-switch effect
\* the title the effect gives the conversation: `Chat with ${name}`
ChatTitle(name) ==
    IF name = "Physics" THEN "Chat with Physics" ELSE "Chat with Maths"

\* the continuation of the effect's `await createConversation(...)` is due:
\* the call has just resolved and newConversation is its result
SelectDue == "done" \in ev.step /\ ev.op = "createConversation"

\* the effect is due: the component has mounted, or the last step gave one of
\* currentLibrary, conversations and currentConversation a new value (every
\* refresh sets a new conversations array; a libraries commit keeps the
\* current library object when its id is still listed)
EffectDue ==
    /\ ~SelectDue
    /\ \/ ev.op = "mount"
       \/ "conversationsSet" \in ev.step
       \/ "librariesSet" \in ev.step /\ ev.was.currentLibrary # currentLibrary
       \/ ev.op = "setCurrentConversation"

\* one run of the effect
AutoSwitch ==
    /\ EffectDue
    /\ IF /\ currentLibrary # <<>>
          /\ \/ currentConversation = <<>>
             \/ currentConversation[1].libraryId # currentLibrary[1].id
       THEN LET libraryConversation ==
                    FindFirst(conversations,
                              {c \in Range(conversations) :
                                  c.libraryId = currentLibrary[1].id})
            IN IF libraryConversation # <<>>
               THEN SetCurrentConversation(libraryConversation)
               ELSE \E t \in Tasks :
                        StartCreateConversation(t, currentLibrary[1].id,
                                                ChatTitle(currentLibrary[1].name))
       ELSE /\ ev' = [NoEv EXCEPT !.op = "autoSwitch"]
            /\ UNCHANGED <<store, backend, tasks, storage, upload>>

\* `setCurrentConversation(newConversation)` once the call has resolved
AutoSwitchSelect ==
    /\ SelectDue
    /\ SetCurrentConversation(ev.ret)

\* the mounted ChatInterface of a client that has loaded its one library,
\* selected it, and found no conversation on the backend
InitChat ==
    /\ srvLibraries = <<[id |-> LibId(1), name |-> "Physics", tags |-> NoTags,
                          documents |-> <<>>]>>
    /\ srvConversations = <<>>
    /\ srvCreated = [lib |-> 1, conv |-> 0]
    /\ libraries = BuildLibraries(ListResponse(srvLibraries), <<<<>>>>)
    /\ currentLibrary = RepairSelection(<<>>, libraries)
    /\ conversations = <<>>
    /\ currentConversation = <<>>
    /\ tasks = [t \in Tasks |-> IdleTask]
    /\ ev = [NoEv EXCEPT !.op = "mount"]
    /\ upload = NoUpload
    /\ storage = Written(libraries, currentLibrary, conversations, currentConversation)

\* nothing of the effect is pending: effects and resolved continuations run
\* before the next answer or user event is handled
Settled == ~EffectDue /\ ~SelectDue

\* SpecChat: the effect, the calls it issues, and refreshes of the libraries
\* started from elsewhere (PDFUploader, Settings) while the chat is shown
NextChat ==
    \/ AutoSwitch
    \/ AutoSwitchSelect
    \/ Settled /\ \E t \in Tasks : StartFetchLibraries(t)
    \/ Settled /\ \E t \in Tasks : ServeListLibraries(t)
    \/ Settled /\ \E t \in Tasks : ResumeListLibraries(t)
    \/ Settled /\ \E t \in Tasks : \E k \in 1..MaxLibs : ServeListDocuments(t, k)
    \/ Settled /\ \E t \in Tasks : ResumeListDocuments(t)
    \/ Settled /\ \E t \in Tasks : ServeListConversations(t)
    \/ Settled /\ \E t \in Tasks : ResumeListConversations(t)
    \/ Settled /\ \E t \in Tasks : ServeCreateConversation(t)
    \/ Settled /\ \E t \in Tasks : ResumeCreateConversation(t)

SpecChat == InitChat /\ [][NextChat]_vars

\* C38 as claimed: the effect never has two createConversation calls for one
\* library in flight, and the backend never holds two conversations of one
\* library (in SpecChat the backend starts with none and only the effect
\* creates conversations)
C38_OneCreatePerLibrary ==
    \A l \in Ids(srvLibraries) :
        /\ Cardinality({t \in Tasks : /\ tasks[t].op = "createConversation"
                                      /\ tasks[t].id = l}) <= 1
        /\ Cardinality({k \in DOMAIN srvConversations :
                            srvConversations[k].library_id = l}) <= 1

\* ------------------------------------- PDFUploader: handleUpload, cancelUpload
SizeLimit == 20    \* megabytes
UploadFiles ==
    [d1 |-> [name |-> "d1", size |-> 1], d2 |-> [name |-> "d2", size |-> 2],
     d3 |-> [name |-> "d3", size |-> 21]]
\* the batches a user selects or drops
Batches ==
    {<<UploadFiles.d1>>, <<UploadFiles.d1, UploadFiles.d2>>, <<UploadFiles.d3>>,
     <<UploadFiles.d1, UploadFiles.d3>>}

\* catch and finally of handleUpload (188-202)
Caught(u, message) ==
    [u EXCEPT !.uploadStatus = "error", !.errorMessage = message,
              !.isUploading = FALSE, !.run = NoRun]

\* the loop body up to the upload request, for file i of the batch (143-159)
EnterFile(u, i) ==
    LET file == u.run.files[i]
    IN IF file.size > SizeLimit
       THEN Caught(u, "too large")
       ELSE [u EXCEPT !.currentFile = file.name, !.currentFileSize = file.size,
                      !.uploadProgress = 0,
                      !.run = [@ EXCEPT !.pc = "post", !.i = i, !.srv = FALSE,
                                        !.ok = TRUE]]

\* handleUpload is called with the files selected or dropped (125-159); one
\* run is followed at a time
HandleUpload(files) ==
    /\ upload.run.pc = "idle"
    /\ currentLibrary # <<>>
    /\ upload' = EnterFile([upload EXCEPT
                               !.isUploading = TRUE, !.uploadStatus = "uploading",
                               !.uploadProgress = 0, !.errorMessage = "",
                               !.uploadedFiles = <<>>, !.totalFiles = Len(files),
                               !.cancelled = FALSE,
                               !.run = [NoRun EXCEPT !.files = files,
                                            !.libraryId = currentLibrary[1].id]],
                           1)
    /\ ev' = [NoEv EXCEPT !.op = "handleUpload", !.step = {"call"}]
    /\ UNCHANGED <<store, backend, storage, tasks>>

\* backend: POST /libraries/{id}/documents answers the request of the run
ServeUploadFile ==
    /\ upload.run.pc = "post"
    /\ ~upload.run.srv
    /\ \E ok \in BOOLEAN :
        LET document == upload.run.files[upload.run.i].name
            at == {k \in DOMAIN srvLibraries :
                      /\ srvLibraries[k].id = upload.run.libraryId
                      /\ document \notin Range(srvLibraries[k].documents)}
        IN /\ ok => at # {}
           /\ upload' = [upload EXCEPT !.run.srv = TRUE, !.run.ok = ok]
           /\ srvLibraries' =
                 IF ok
                 THEN [k \in DOMAIN srvLibraries |->
                          IF k \in at
                          THEN [srvLibraries[k] EXCEPT !.documents = Append(@, document)]
                          ELSE srvLibraries[k]]
                 ELSE srvLibraries
    /\ ev' = NoEv
    /\ UNCHANGED <<store, storage, srvConversations, srvCreated, tasks>>

\* the continuation of `await uploadFileWithProgress(...)` (159-167)
ResumeUploadFile ==
    /\ upload.run.pc = "post"
    /\ upload.run.srv
    /\ upload' =
          IF ~upload.run.ok
          THEN Caught(upload, "failed")
          ELSE [upload EXCEPT
                   !.uploadedFiles = Append(@, upload.run.files[upload.run.i].name),
                   !.uploadStatus = "processing", !.uploadProgress = 100,
                   !.run.pc = "wait"]
    /\ ev' = [NoEv EXCEPT !.op = "handleUpload", !.step = {"uploaded"}]
    /\ UNCHANGED <<store, backend, storage, tasks>>

\* the 500 ms are over: the next file of the batch, or the end of the loop
\* with the call of fetchLibraries (167-173)
AfterWait ==
    /\ upload.run.pc = "wait"
    /\ IF upload.run.i < Len(upload.run.files)
       THEN /\ upload' = EnterFile(upload, upload.run.i + 1)
            /\ ev' = [NoEv EXCEPT !.op = "handleUpload", !.step = {"next"}]
            /\ UNCHANGED tasks
       ELSE /\ upload' = [upload EXCEPT !.uploadStatus = "success",
                                        !.run.pc = "refresh"]
            /\ \E t \in Tasks : CallFetchLibraries(t)
    /\ UNCHANGED <<store, backend, storage>>

\* the fetchLibraries call of the run has ended
RefreshEnded ==
    /\ ev.op = "fetchLibraries"
    /\ "done" \in ev.step \/ "failed" \in ev.step

\* the continuation of `await fetchLibraries()` (173-202)
AfterRefresh ==
    /\ upload.run.pc = "refresh"
    /\ RefreshEnded
    /\ upload' = IF "failed" \in ev.step
                 THEN Caught(upload, "failed")
                 ELSE [upload EXCEPT !.isUploading = FALSE, !.run.pc = "timer"]
    /\ ev' = [NoEv EXCEPT !.op = "handleUpload", !.step = {"done"}]
    /\ UNCHANGED <<store, backend, storage, tasks>>

\* the reset three seconds after a successful batch (183-187)
ResetTimer ==
    /\ upload.run.pc = "timer"
    /\ upload' = [upload EXCEPT !.uploadStatus = "idle", !.uploadProgress = 0,
                                !.uploadedFiles = <<>>, !.run = NoRun]
    /\ ev' = [NoEv EXCEPT !.op = "handleUpload", !.step = {"reset"}]
    /\ UNCHANGED <<store, backend, storage, tasks>>

\* cancelUpload (114-123); its button is rendered while uploadStatus is
\* "uploading" (250-279)
CancelUpload ==
    /\ upload.uploadStatus = "uploading"
    /\ upload' = [upload EXCEPT !.uploadStatus = "idle", !.uploadProgress = 0,
                                !.uploadedFiles = <<>>, !.currentFile = "",
                                !.currentFileSize = 0, !.totalFiles = 0,
                                !.errorMessage = "", !.isUploading = FALSE,
                                !.cancelled = TRUE]
    /\ ev' = [NoEv EXCEPT !.op = "cancelUpload", !.step = {"call", "done"}]
    /\ UNCHANGED <<store, backend, storage, tasks>>

\* SpecUpload: batches uploaded to the selected library and cancelled
NextUpload ==
    \/ \E files \in Batches : HandleUpload(files)
    \/ ServeUploadFile
    \/ ResumeUploadFile
    \/ AfterWait
    \/ AfterRefresh
    \/ ResetTimer
    \/ CancelUpload
    \/ RefreshSteps

SpecUpload == InitLoaded /\ [][NextUpload]_vars

\* C39 as claimed: from cancelUpload until the next upload is started the
\* upload state is reset, the cancelled run issues no upload request for a
\* further file and no fetchLibraries call is in flight (in SpecUpload only
\* handleUpload calls fetchLibraries)
C39_StaysCancelled ==
    upload.cancelled =>
        /\ upload.uploadStatus = "idle"
        /\ ~upload.isUploading
        /\ upload.uploadedFiles = <<>>
        /\ ~(ev.op = "handleUpload" /\ "next" \in ev.step /\ upload.run.pc = "post")
        /\ Quiet

====
